---------------------------- MODULE Spec2Model ----------------------------
(***************************************************************************)
(* State-machine model of the CS5500 "tuiter" Express server: sessions,    *)
(* users, tuits, likes and the remote (Cloudinary) media store, with the   *)
(* request handlers of the controllers as actions.                         *)
(*                                                                         *)
(* Ids and URLs are opaque in the program (Mongo ObjectIds, Cloudinary     *)
(* secure_urls); here they are small integers in disjoint ranges.          *)
(* Handlers that await between a read and a write of shared data           *)
(* (userTogglesLikesTuit, deleteTrashMedia) run step by step in a request  *)
(* slot; the others run as one action.                                     *)
(***************************************************************************)
EXTENDS Integers, Sequences, FiniteSets, TLC

(***************************************************************************)
(* Bounds of the model.                                                    *)
(***************************************************************************)
MaxClients == 1
MaxUsers == 4
MaxTuits == 2
MaxObjects == 12
MaxInflight == 2
\* tuits created and objects uploaded in a run of the whole API
ApiTuits == 1
ApiObjects == 1
\* the same for the runs of the media reconciler and of the tuit writes
ReconTuits == 1
ReconObjects == 12
MediaTuits == 1
MediaObjects == 7
\* the same for the reconciler running while other requests arrive, and for
\* writes whose uploads fail
RaceTuits == 1
RaceObjects == 2
OrphanTuits == 1
OrphanObjects == 11
\* tuits created in a run of the requests that name a user
ResolveTuits == 2
\* accounts created in a run of the authentication endpoints
AuthUsers == 1
\* objects uploaded in a run of the uploader alone, and the longest asset list
UploadObjects == 8
MaxAssets == 7
\* accounts created in a run of the user endpoints
NewUsers == 1
\* tuits created in a run with failing store calls
FailTuits == 1
\* tuits created in a run of toggles beside the owner's writes
WriteTuits == 1
\* clients beside the first ones, for the runs in which two sessions are
\* open at a time, and the tuits created in such a run
MoreClients == 1
StaleTuits == 1

(***************************************************************************)
(* Program constants.                                                      *)
(***************************************************************************)
IMAGE_LIMIT == 6
VIDEO_LIMIT == 1
MY == 0
\* the page size of a resource listing that names none
MAX_RESULTS == 10

Clients == 1 .. MaxClients
\* every client that can hold a session: those and the ones beside them
AllClients == 1 .. (MaxClients + MoreClients)
Slots == 1 .. MaxInflight
\* user ids; the users collection first holds alice (1), bob (2), root (3)
UserIds == 1 .. MaxUsers
TuitIds == 11 .. (10 + MaxTuits)
ObjectUrls == 21 .. (20 + MaxObjects)
\* a URL that no object of the media store has (a link to another site)
ExtUrl == 20
\* the default profilePhoto / headerImage of the user schema
DefaultPhoto == 19
\* the value of a missing property, as it lands in a stored array
UNDEFINED == 18
\* the text of a request body that has no tuit field
AbsentText == "~"

NoProfile == [_id |-> -1, username |-> "", password |-> -1]
EmptyFcn == [x \in {} |-> 0]
NoDoc == [postedBy |-> -1, tuit |-> "", image |-> <<>>, video |-> <<>>, likes |-> -1]
Idle == [op |-> "idle"]

VARIABLES
    session,    \* client -> req.session['profile'] (NoProfile when unset)
    users,      \* users collection: _id -> document
    tuits,      \* tuits collection: _id -> document
    likes,      \* likes collection: <<tuit, likedBy>> -> number of documents
    cloud,      \* media store: set of [url, kind] resources
    nextUid,    \* number of users created so far
    nextTid,    \* number of tuits created so far
    nextUrl,    \* number of uploads made so far
    reqs,       \* slot -> request in flight
    last        \* what the step just taken reported to its caller

vars == <<session, users, tuits, likes, cloud, nextUid, nextTid, nextUrl, reqs, last>>
store == <<users, tuits, likes, cloud>>

\* an event: the handler op, run for client c as the principal who (what
\* checkLogin returned) on the path ids uid and tid, reported out (a
\* response, or an error passed to next) having by then performed the
\* effects eff; nexted: an error had already been passed to next; run: the
\* request's record when a stepwise handler ends
EventN(op, c, who, uid, tid, out, eff, nexted, run) ==
    [op |-> op, c |-> c, who |-> who, uid |-> uid, tid |-> tid, out |-> out,
     eff |-> eff, nexted |-> nexted, run |-> run]
Event(op, c, uid, tid, out, eff) ==
    EventN(op, c, session[c], uid, tid, out, eff, FALSE, Idle)
NoEvent == EventN("none", 0, NoProfile, -1, -1, "", {}, FALSE, Idle)

(***************************************************************************)
(* Credential verifier: bcrypt.hash / bcrypt.compare, and the redaction.   *)
(***************************************************************************)
REDACTED == 49
Hash(p) == 50 + p
Compare(p, digest) == digest = Hash(p)

(***************************************************************************)
(* Identity resolution.                                                    *)
(***************************************************************************)
admins == {"root"}

AdminDao_findAdmin(uname) == uname \in admins

isAdmin(uname) == AdminDao_findAdmin(uname)

\* checkLogin: the session's principal, or the not-logged-in error
checkLogin(c) == session[c] # NoProfile

isValidId(id) == id > 0

\* getUserId: "my" with a session principal is that principal's id; any
\* other id is returned as given; "my" left over means nobody is logged in
getUserId(uid, profile) ==
    IF uid = MY /\ profile # NoProfile THEN profile._id ELSE uid

(***************************************************************************)
(* Document store (mongoose models).                                       *)
(***************************************************************************)
UserDao_findUserById(uid) == uid \in DOMAIN users

UserDao_findUserByUsername(uname) ==
    {u \in DOMAIN users : users[u].username = uname}

TuitDao_findTuitById(tid) ==
    IF tid \in DOMAIN tuits THEN tuits[tid] ELSE NoDoc

TuitDao_findTuitOwnedByUser(uid, tid) ==
    tid \in DOMAIN tuits /\ tuits[tid].postedBy = uid

\* updateOne({_id: tid}, {$set: doc}): no document matched, nothing written
TuitDao_updateTuit(tid, doc) ==
    IF tid \in DOMAIN tuits THEN [tuits EXCEPT ![tid] = doc] ELSE tuits

TuitDao_deleteTuit(tid) == [t \in DOMAIN tuits \ {tid} |-> tuits[t]]

LikeKeys == TuitIds \X UserIds

RECURSIVE SumOver(_, _)
SumOver(f, S) ==
    IF S = {} THEN 0
    ELSE LET x == CHOOSE y \in S : TRUE
         IN f[x] + SumOver(f, S \ {x})

LikeDao_findUserAlreadyLikedTuit(uid, tid) == likes[<<tid, uid>>] > 0

LikeDao_findHowManyLikedTuit_AnyTuit(tid) ==
    SumOver(likes, LikeKeys)

LikeDao_findHowManyLikedTuit(tid) ==
    SumOver(likes, {k \in LikeKeys : k[1] = tid})

\* LikeModel.create under the natural-key uniqueness the store is required
\* to enforce: a second document for the pair is refused
LikeModel_createFails(uid, tid) == likes[<<tid, uid>>] > 0

LikeDao_userLikesTuit_NoIndex(uid, tid) ==
    [likes EXCEPT ![<<tid, uid>>] = @ + 1]

LikeDao_userLikesTuit(uid, tid) ==
    IF LikeModel_createFails(uid, tid) THEN likes
    ELSE [likes EXCEPT ![<<tid, uid>>] = @ + 1]

LikeDao_userUnlikesTuit_Keep(uid, tid) == likes

\* deleteOne: removes one matching document when there is one
LikeDao_userUnlikesTuit(uid, tid) ==
    [likes EXCEPT ![<<tid, uid>>] = IF @ > 0 THEN @ - 1 ELSE 0]

(***************************************************************************)
(* Initial state: the three accounts exist, nobody is logged in, there are *)
(* no tuits, likes or uploaded media.                                      *)
(***************************************************************************)
UserDoc(uname, pw) ==
    [username |-> uname, password |-> Hash(pw),
     headerImage |-> DefaultPhoto, profilePhoto |-> DefaultPhoto]

Init ==
    /\ session = [c \in AllClients |-> NoProfile]
    /\ users = (1 :> UserDoc("alice", 1)) @@ (2 :> UserDoc("bob", 2))
                 @@ (3 :> UserDoc("root", 1))
    /\ tuits = EmptyFcn
    /\ likes = [k \in LikeKeys |-> 0]
    /\ cloud = {}
    /\ nextUid = 3
    /\ nextTid = 0
    /\ nextUrl = 0
    /\ reqs = [s \in Slots |-> Idle]
    /\ last = NoEvent

(***************************************************************************)
(* Requests in flight.                                                     *)
(***************************************************************************)
Quiet == \A s \in Slots : reqs[s] = Idle

FreeSlots == {s \in Slots : reqs[s] = Idle}

\* the slot a new request takes: the lowest free one
FreeSlot == CHOOSE s \in FreeSlots : \A t \in FreeSlots : s <= t

Finish(s) == reqs' = [reqs EXCEPT ![s] = Idle]

(***************************************************************************)
(* AuthenticationController: login, logout.                                *)
(***************************************************************************)
\* a user document as findUserByUsername / createUser return it
UserRecord(uid) ==
    [_id |-> uid, username |-> users[uid].username, password |-> users[uid].password]

Redact_Keep(doc) == doc

\* existingUser.password = '******'
Redact(doc) == [doc EXCEPT !.password = REDACTED]

Profile(uid) == Redact(UserRecord(uid))

\* what a login or register request sent and what res.json answered
AuthRun(uname, pw, body) == [uname |-> uname, pw |-> pw, body |-> body]

AuthEvent(op, c, uid, out, eff, uname, pw, body) ==
    EventN(op, c, session[c], uid, -1, out, eff, FALSE, AuthRun(uname, pw, body))

\* POST /api/auth/login with body {username, password}; "" and 0 are a
\* missing field
login(c, uname, pw) ==
    /\ UNCHANGED <<store, nextUid, nextTid, nextUrl, reqs>>
    /\ IF uname = "" \/ pw = 0
       THEN /\ last' = AuthEvent("login", c, -1, "InvalidInput", {}, uname, pw, NoProfile)
            /\ UNCHANGED session
       ELSE LET found == UserDao_findUserByUsername(uname)
            IN IF found = {}
               THEN \* existingUser is null: reading its password throws
                    \* inside the async handler, no response is sent
                    /\ last' = AuthEvent("login", c, -1, "crash", {}, uname, pw, NoProfile)
                    /\ UNCHANGED session
               ELSE LET u == CHOOSE x \in found : TRUE
                    IN IF Compare(pw, users[u].password)
                       THEN /\ session' = [session EXCEPT ![c] = Profile(u)]
                            /\ last' = AuthEvent("login", c, u, "ok", {}, uname, pw,
                                                 Profile(u))
                       ELSE /\ last' = AuthEvent("login", c, u, "NoSuchUser", {},
                                                 uname, pw, NoProfile)
                            /\ UNCHANGED session

\* POST /api/auth/register with body {username, password}: the field test,
\* bcrypt.hash and the lookup of the username
registerStart(c, uname, pw) ==
    /\ FreeSlots # {}
    /\ UNCHANGED <<session, store, nextUid, nextTid, nextUrl>>
    /\ IF uname = "" \/ pw = 0
       THEN /\ last' = AuthEvent("register", c, -1, "InvalidInput", {}, uname, pw, NoProfile)
            /\ UNCHANGED reqs
       ELSE IF UserDao_findUserByUsername(uname) # {}
            THEN /\ last' = AuthEvent("register", c, -1, "UserAlreadyExists", {},
                                      uname, pw, NoProfile)
                 /\ UNCHANGED reqs
       ELSE /\ reqs' = [reqs EXCEPT ![FreeSlot] =
                    [op |-> "register", pc |-> "create", c |-> c, who |-> session[c],
                     uname |-> uname, pw |-> pw, digest |-> Hash(pw)]]
            /\ last' = NoEvent

\* insertedUser = await userDao.createUser(newUser), the redaction, the
\* session and the response; the unique index on username refuses a second
\* document of the name, and that rejection is caught by nothing
registerCreate(s) ==
    LET r == reqs[s]
        uid == nextUid + 1
    IN /\ r.op = "register" /\ r.pc = "create"
       /\ Finish(s)
       /\ UNCHANGED <<tuits, likes, cloud, nextTid, nextUrl>>
       /\ IF UserDao_findUserByUsername(r.uname) # {}
          THEN /\ last' = EventN("register", r.c, r.who, -1, -1, "crash", {}, FALSE,
                                 AuthRun(r.uname, r.pw, NoProfile))
               /\ UNCHANGED <<session, users, nextUid>>
          ELSE /\ users' = users @@ (uid :>
                              [username |-> r.uname, password |-> r.digest,
                               headerImage |-> DefaultPhoto,
                               profilePhoto |-> DefaultPhoto])
               /\ nextUid' = uid
               /\ session' = [session EXCEPT ![r.c] =
                                 Redact([_id |-> uid, username |-> r.uname,
                                         password |-> r.digest])]
               /\ last' = EventN("register", r.c, r.who, uid, -1, "ok", {"write"}, FALSE,
                                 AuthRun(r.uname, r.pw,
                                         Redact([_id |-> uid, username |-> r.uname,
                                                 password |-> r.digest])))

\* POST /api/auth/logout
logout(c) ==
    /\ session' = [session EXCEPT ![c] = NoProfile]
    /\ last' = Event("logout", c, -1, -1, "ok", {})
    /\ UNCHANGED <<store, nextUid, nextTid, nextUrl, reqs>>

(***************************************************************************)
(* LikeController.userTogglesLikesTuit: PUT /api/users/:uid/likes/:tid     *)
(***************************************************************************)
\* checkLogin and getUserId
toggleStart(c, uid, tid) ==
    /\ FreeSlots # {}
    /\ UNCHANGED <<session, store, nextUid, nextTid, nextUrl>>
    /\ IF ~checkLogin(c)
       THEN /\ last' = Event("toggle", c, uid, tid, "NotAuthenticated", {})
            /\ UNCHANGED reqs
       ELSE LET userId == getUserId(uid, session[c])
            IN IF userId = MY
               THEN /\ last' = Event("toggle", c, uid, tid, "InvalidInput", {})
                    /\ UNCHANGED reqs
               ELSE \* solo: no other toggle of the tuit was in flight while
                    \* this one ran; drift: the tuit's stored count differed
                    \* from its number of likes when the request arrived
                    /\ reqs' = [s \in Slots |->
                            IF s = FreeSlot
                            THEN [op |-> "toggle", pc |-> "findTuit", c |-> c,
                                  who |-> session[c], uid |-> userId, tid |-> tid,
                                  tuit |-> NoDoc, liked |-> FALSE, eff |-> {},
                                  nexted |-> FALSE,
                                  solo |-> \A t \in Slots :
                                              reqs[t].op = "toggle" => reqs[t].tid # tid,
                                  drift |-> /\ tid \in DOMAIN tuits
                                            /\ tuits[tid].likes #
                                                   LikeDao_findHowManyLikedTuit(tid)]
                            ELSE IF reqs[s].op = "toggle" /\ reqs[s].tid = tid
                                 THEN [reqs[s] EXCEPT !.solo = FALSE]
                                 ELSE reqs[s]]
                    /\ last' = NoEvent

\* the handler goes on without looking at what findTuitById returned
toggleFindTuit_NoCheck(s) ==
    LET r == reqs[s]
        doc == TuitDao_findTuitById(r.tid)
    IN /\ r.op = "toggle" /\ r.pc = "findTuit"
       /\ UNCHANGED <<session, store, nextUid, nextTid, nextUrl>>
       /\ reqs' = [reqs EXCEPT ![s].pc = "findLiked", ![s].tuit = doc]
       /\ last' = NoEvent

\* tuit = await tuitDao.findTuitById(tuitId)
toggleFindTuit(s) ==
    LET r == reqs[s]
        doc == TuitDao_findTuitById(r.tid)
    IN /\ r.op = "toggle" /\ r.pc = "findTuit"
       /\ UNCHANGED <<session, store, nextUid, nextTid, nextUrl>>
       /\ IF doc = NoDoc
          THEN /\ last' = EventN("toggle", r.c, r.who, r.uid, r.tid, "NoSuchTuit",
                               r.eff, FALSE, r)
               /\ Finish(s)
          ELSE /\ reqs' = [reqs EXCEPT ![s].pc = "findLiked", ![s].tuit = doc]
               /\ last' = NoEvent

\* userAlreadyLikedTuit = await likeDao.findUserAlreadyLikedTuit(userId, tuitId)
toggleFindLiked(s) ==
    LET r == reqs[s]
    IN /\ r.op = "toggle" /\ r.pc = "findLiked"
       /\ reqs' = [reqs EXCEPT ![s].pc = "write",
                     ![s].liked = LikeDao_findUserAlreadyLikedTuit(r.uid, r.tid)]
       /\ last' = NoEvent
       /\ UNCHANGED <<session, store, nextUid, nextTid, nextUrl>>

\* userUnlikesTuit(...).catch(next) or userLikesTuit(...).catch(next): the
\* handler goes on after a failed write
toggleWrite(s) ==
    LET r == reqs[s]
    IN /\ r.op = "toggle" /\ r.pc = "write"
       /\ UNCHANGED <<session, users, tuits, cloud, nextUid, nextTid, nextUrl>>
       /\ IF r.liked
          THEN /\ likes' = LikeDao_userUnlikesTuit(r.uid, r.tid)
               /\ reqs' = [reqs EXCEPT ![s].pc = "count",
                             ![s].eff = @ \cup {"write"}]
               /\ last' = NoEvent
          ELSE IF LikeModel_createFails(r.uid, r.tid)
               THEN /\ likes' = LikeDao_userLikesTuit(r.uid, r.tid)
                    /\ reqs' = [reqs EXCEPT ![s].pc = "count", ![s].nexted = TRUE]
                    /\ last' = EventN("toggle", r.c, r.who, r.uid, r.tid,
                                     "DuplicateKey", r.eff, FALSE, r)
               ELSE /\ likes' = LikeDao_userLikesTuit(r.uid, r.tid)
                    /\ reqs' = [reqs EXCEPT ![s].pc = "count",
                                  ![s].eff = @ \cup {"write"}]
                    /\ last' = NoEvent

\* the stored count is stepped up or down instead of counted again
toggleCount_Increment(s) ==
    LET r == reqs[s]
    IN /\ r.op = "toggle" /\ r.pc = "count"
       /\ reqs' = [reqs EXCEPT ![s].pc = "update",
                     ![s].tuit.likes = IF r.liked THEN @ - 1 ELSE @ + 1]
       /\ last' = NoEvent
       /\ UNCHANGED <<session, store, nextUid, nextTid, nextUrl>>

\* tuit.stats.likes = await likeDao.findHowManyLikedTuit(tuitId)
toggleCount(s) ==
    LET r == reqs[s]
    IN /\ r.op = "toggle" /\ r.pc = "count"
       /\ reqs' = [reqs EXCEPT ![s].pc = "update",
                     ![s].tuit.likes = LikeDao_findHowManyLikedTuit(r.tid)]
       /\ last' = NoEvent
       /\ UNCHANGED <<session, store, nextUid, nextTid, nextUrl>>

\* await tuitDao.updateTuit(tuitId, tuit); res.sendStatus(200)
toggleUpdate(s) ==
    LET r == reqs[s]
    IN /\ r.op = "toggle" /\ r.pc = "update"
       /\ tuits' = TuitDao_updateTuit(r.tid, r.tuit)
       /\ last' = EventN("toggle", r.c, r.who, r.uid, r.tid, "ok",
                         r.eff \cup {"write"}, r.nexted, r)
       /\ Finish(s)
       /\ UNCHANGED <<session, users, likes, cloud, nextUid, nextTid, nextUrl>>

(***************************************************************************)
(* Media intake: CloudinaryDao.uploadMedia.                                *)
(***************************************************************************)
\* a media field of a request body: absent, one URL string, or an array
AbsentField == [k |-> "absent", v |-> <<>>]
StrField(u) == [k |-> "str", v |-> <<u>>]
ArrField(us) == [k |-> "arr", v |-> us]

\* Array.isArray(x) ? x : [x], and [] for a missing (falsy) field
AsArray(f) == IF f.k = "absent" THEN <<>> ELSE f.v

\* req.files: undefined when the request is not multipart, else the number
\* of files under each field name (0: the field name is not in files);
\* accepted: how many of the request's uploads the media store takes before
\* its upload call throws (all of them when the store is in order)
NoFiles == [present |-> FALSE, image |-> 0, video |-> 0, accepted |-> 0]
Files(ni, nv) == [present |-> TRUE, image |-> ni, video |-> nv, accepted |-> ni + nv]
FilesFailing(ni, nv, k) == [present |-> TRUE, image |-> ni, video |-> nv, accepted |-> k]

\* the resource the uploader stores for the k-th upload made
UrlOf(k) == 20 + k

\* what cloudinary.uploader.upload stores for the k-th upload made: the
\* content of the i-th asset of the caller's list; lost: the secure_url never
\* reached the caller of uploadMedia, a later upload of its loop threw
Resource(k, kind, i, lost) ==
    [url |-> UrlOf(k), kind |-> kind, asset |-> i, lost |-> lost]

\* what uploadMedia gives: the URLs returned (err = "") or the error thrown,
\* the resources its uploads stored and their number
UploadResult(err, urls, objs) ==
    [ok |-> err = "", err |-> err, urls |-> urls, objs |-> objs,
     made |-> Cardinality(objs)]

\* the secure_urls come back in another order than the assets went
uploadMedia_Unordered(n, limit, done, kind, accepted) ==
    IF n = 0 THEN UploadResult("", <<>>, {})
    ELSE IF n > limit THEN UploadResult("MediaContentExceedsLimit", <<>>, {})
    ELSE UploadResult("", [i \in 1 .. n |-> UrlOf(done + n + 1 - i)],
                      {Resource(done + i, kind, i, FALSE) : i \in 1 .. n})

\* uploadMedia(assets, limit) for n assets after `done` uploads were made:
\* no assets -> []; more than limit -> throws before any upload; otherwise
\* one upload per asset, in order, collecting the secure_urls; when the
\* store's upload throws, the loop ends there and the error is the result
uploadMedia(n, limit, done, kind, accepted) ==
    IF n = 0 THEN UploadResult("", <<>>, {})
    ELSE IF n > limit THEN UploadResult("MediaContentExceedsLimit", <<>>, {})
    ELSE IF accepted < n
         THEN UploadResult("StoreError", <<>>,
                           {Resource(done + i, kind, i, TRUE) : i \in 1 .. accepted})
    ELSE UploadResult("", [i \in 1 .. n |-> UrlOf(done + i)],
                      {Resource(done + i, kind, i, FALSE) : i \in 1 .. n})

(***************************************************************************)
(* TuitController (current handlers).                                      *)
(***************************************************************************)
Reject(op, c, uid, tid, out) ==
    /\ last' = Event(op, c, uid, tid, out, {})
    /\ UNCHANGED <<session, store, nextUid, nextTid, nextUrl, reqs>>

\* what a tuit write request carries: the body's image and video URLs and
\* the uploaded files
Payload(body, files) ==
    [image |-> AsArray(body.image), video |-> AsArray(body.video), files |-> files]

TuitEvent(op, c, uid, tid, out, eff, body, files) ==
    EventN(op, c, session[c], uid, tid, out, eff, FALSE, Payload(body, files))

RejectTuit(op, c, uid, tid, out, body, files) ==
    /\ last' = TuitEvent(op, c, uid, tid, out, {}, body, files)
    /\ UNCHANGED <<session, store, nextUid, nextTid, nextUrl, reqs>>

\* TuitModel.create({...tuit, postedBy: uid}): the id of the new document
NewTid == 11 + nextTid

TuitDao_createTuitByUser(uid, text, image, video) ==
    tuits @@ (NewTid :> [postedBy |-> uid, tuit |-> text, image |-> image,
                         video |-> video, likes |-> 0])

\* POST /api/users/:uid/tuits
createTuitByUser(c, uid, body, files) ==
    LET userId == getUserId(uid, session[c])
        up1 == uploadMedia(files.image, IMAGE_LIMIT, nextUrl, "image", files.accepted)
        up2 == uploadMedia(files.video, VIDEO_LIMIT, nextUrl + up1.made, "video",
                           files.accepted - up1.made)
        \* media = {IMAGE_FIELD: [], VIDEO_FIELD: []} has neither an image nor
        \* a video key until an upload result is assigned: without req.files
        \* the body's own image and video fields are what is stored
        image == IF files.present THEN up1.urls ELSE AsArray(body.image)
        video == IF files.present THEN up2.urls ELSE AsArray(body.video)
    IN IF ~checkLogin(c) THEN RejectTuit("createTuit", c, uid, -1, "NotAuthenticated", body, files)
          ELSE IF userId = MY THEN RejectTuit("createTuit", c, uid, -1, "InvalidInput", body, files)
          ELSE IF ~isValidId(userId) THEN RejectTuit("createTuit", c, uid, -1, "InvalidInput", body, files)
          ELSE IF ~UserDao_findUserById(userId)
               THEN RejectTuit("createTuit", c, uid, -1, "NoSuchUser", body, files)
          ELSE IF body.tuit \in {"", AbsentText}
               THEN RejectTuit("createTuit", c, uid, -1, "EmptyTuit", body, files)
          ELSE IF files.present /\ files.image > 0 /\ files.video > 0
               THEN RejectTuit("createTuit", c, uid, -1, "MultiTypeMedia", body, files)
          ELSE IF files.present /\ ~up1.ok
               THEN \* catch (e) { next(e) }: what was uploaded stays stored
                    /\ cloud' = cloud \cup up1.objs
                    /\ nextUrl' = nextUrl + up1.made
                    /\ last' = TuitEvent("createTuit", c, uid, -1, up1.err,
                                     IF up1.objs = {} THEN {} ELSE {"upload"},
                                     body, files)
                    /\ UNCHANGED <<session, users, tuits, likes, nextUid, nextTid, reqs>>
          ELSE IF files.present /\ ~up2.ok
               THEN \* the images are uploaded by now
                    /\ cloud' = cloud \cup up1.objs \cup up2.objs
                    /\ nextUrl' = nextUrl + up1.made + up2.made
                    /\ last' = TuitEvent("createTuit", c, userId, -1, up2.err,
                                     IF up1.objs \cup up2.objs = {} THEN {}
                                     ELSE {"upload"},
                                     body, files)
                    /\ UNCHANGED <<session, users, tuits, likes, nextUid, nextTid, reqs>>
          ELSE /\ cloud' = IF files.present THEN cloud \cup up1.objs \cup up2.objs
                           ELSE cloud
               /\ nextUrl' = IF files.present
                             THEN nextUrl + up1.made + up2.made
                             ELSE nextUrl
               /\ tuits' = TuitDao_createTuitByUser(userId, body.tuit, image, video)
               /\ nextTid' = nextTid + 1
               /\ last' = TuitEvent("createTuit", c, userId, NewTid, "ok",
                                {"write"} \cup
                                (IF files.present /\ up1.objs \cup up2.objs # {}
                                 THEN {"upload"} ELSE {}), body, files)
               /\ UNCHANGED <<session, users, likes, nextUid, reqs>>

\* PUT /api/users/:uid/tuits/:tid
updateTuit(c, uid, tid, body, files) ==
    LET userId == getUserId(uid, session[c])
        newImage == AsArray(body.image)
        newVideo == AsArray(body.video)
        newImageCount == Len(newImage) + (IF files.present THEN files.image ELSE 0)
        newVideoCount == Len(newVideo) + (IF files.present THEN files.video ELSE 0)
        up1 == uploadMedia(files.image, IMAGE_LIMIT, nextUrl, "image", files.accepted)
        up2 == uploadMedia(files.video, VIDEO_LIMIT, nextUrl + up1.made, "video",
                           files.accepted - up1.made)
        doc == [tuits[tid] EXCEPT
                   !.tuit = IF body.tuit = AbsentText THEN @ ELSE body.tuit,
                   \* Array.prototype.concat(newImage, media[IMAGE_FIELD]): the
                   \* media literal has no image or video key, so without
                   \* req.files the value appended is undefined, as one element
                   !.image = newImage \o (IF files.present THEN up1.urls
                                          ELSE <<UNDEFINED>>),
                   !.video = newVideo \o (IF files.present THEN up2.urls
                                          ELSE <<UNDEFINED>>)]
    IN IF ~checkLogin(c) THEN RejectTuit("updateTuit", c, uid, tid, "NotAuthenticated", body, files)
       ELSE IF userId = MY THEN RejectTuit("updateTuit", c, uid, tid, "InvalidInput", body, files)
       ELSE IF ~isValidId(userId) \/ ~isValidId(tid)
            THEN RejectTuit("updateTuit", c, uid, tid, "InvalidInput", body, files)
       ELSE IF ~TuitDao_findTuitOwnedByUser(userId, tid)
            THEN RejectTuit("updateTuit", c, uid, tid, "NoPermission", body, files)
       ELSE IF newImageCount > 0 /\ newVideoCount > 0
            THEN RejectTuit("updateTuit", c, uid, tid, "MediaContentExceedsLimit", body, files)
       ELSE IF newImageCount > IMAGE_LIMIT \/ newVideoCount > VIDEO_LIMIT
            THEN RejectTuit("updateTuit", c, uid, tid, "MediaContentExceedsLimit", body, files)
       ELSE IF files.present /\ ~up1.ok
            THEN /\ cloud' = cloud \cup up1.objs
                 /\ nextUrl' = nextUrl + up1.made
                 /\ last' = TuitEvent("updateTuit", c, uid, tid, up1.err,
                                  IF up1.objs = {} THEN {} ELSE {"upload"},
                                  body, files)
                 /\ UNCHANGED <<session, users, tuits, likes, nextUid, nextTid, reqs>>
       ELSE IF files.present /\ ~up2.ok
            THEN /\ cloud' = cloud \cup up1.objs \cup up2.objs
                 /\ nextUrl' = nextUrl + up1.made + up2.made
                 /\ last' = TuitEvent("updateTuit", c, userId, tid, up2.err,
                                  IF up1.objs \cup up2.objs = {} THEN {}
                                  ELSE {"upload"},
                                  body, files)
                 /\ UNCHANGED <<session, users, tuits, likes, nextUid, nextTid, reqs>>
       ELSE /\ cloud' = IF files.present THEN cloud \cup up1.objs \cup up2.objs
                        ELSE cloud
            /\ nextUrl' = IF files.present
                          THEN nextUrl + up1.made + up2.made
                          ELSE nextUrl
            /\ tuits' = TuitDao_updateTuit(tid, doc)
            /\ last' = TuitEvent("updateTuit", c, userId, tid, "ok",
                             {"write"} \cup
                             (IF files.present /\ up1.objs \cup up2.objs # {}
                              THEN {"upload"} ELSE {}), body, files)
            /\ UNCHANGED <<session, users, likes, nextUid, nextTid, reqs>>

deleteTuit_DeleteThenCheck(c, tid) ==
    LET profile == session[c]
        userId == profile._id
    IN IF ~checkLogin(c) THEN Reject("deleteTuit", c, -1, tid, "NotAuthenticated")
       ELSE /\ tuits' = TuitDao_deleteTuit(tid)
            /\ last' = Event("deleteTuit", c, userId, tid,
                             IF isAdmin(profile.username)
                                \/ TuitDao_findTuitOwnedByUser(userId, tid)
                             THEN "ok" ELSE "NoPermission", {})
            /\ UNCHANGED <<session, users, likes, cloud, nextUid, nextTid,
                           nextUrl, reqs>>

\* DELETE /api/tuits/:tid
deleteTuit(c, tid) ==
    LET profile == session[c]
        userId == profile._id
    IN IF ~checkLogin(c) THEN Reject("deleteTuit", c, -1, tid, "NotAuthenticated")
       ELSE IF ~isValidId(userId) \/ ~isValidId(tid)
            THEN Reject("deleteTuit", c, userId, tid, "InvalidInput")
       ELSE IF isAdmin(profile.username) \/ TuitDao_findTuitOwnedByUser(userId, tid)
            THEN /\ tuits' = TuitDao_deleteTuit(tid)
                 /\ last' = Event("deleteTuit", c, userId, tid, "ok", {"write"})
                 /\ UNCHANGED <<session, users, likes, cloud, nextUid, nextTid,
                                nextUrl, reqs>>
       ELSE Reject("deleteTuit", c, userId, tid, "NoPermission")

\* DELETE /api/tuits
deleteAllTuits(c) ==
    IF ~checkLogin(c) THEN Reject("deleteAllTuits", c, -1, -1, "NotAuthenticated")
    ELSE IF isAdmin(session[c].username)
         THEN /\ tuits' = EmptyFcn
              /\ last' = Event("deleteAllTuits", c, -1, -1, "ok", {"write"})
              /\ UNCHANGED <<session, users, likes, cloud, nextUid, nextTid,
                             nextUrl, reqs>>
    ELSE Reject("deleteAllTuits", c, -1, -1, "NoPermission")

\* TuitModel.find({postedBy: uid})
TuitDao_findAllTuitsByUser(uid) == {t \in DOMAIN tuits : tuits[t].postedBy = uid}

\* what a request that names a user resolved the name to, and what it read
Resolved(userId, found) == [userId |-> userId, found |-> found]

\* GET /api/users/:uid/tuits
findAllTuitsByUser(c, uid) ==
    LET userId == IF uid = MY /\ checkLogin(c) THEN session[c]._id ELSE uid
    IN /\ UNCHANGED <<session, store, nextUid, nextTid, nextUrl, reqs>>
       /\ IF uid = MY /\ ~checkLogin(c)
          THEN last' = EventN("findAllTuitsByUser", c, session[c], uid, -1,
                              "NotAuthenticated", {}, FALSE, Resolved(uid, {}))
          ELSE IF ~isValidId(userId)
               THEN last' = EventN("findAllTuitsByUser", c, session[c], uid, -1,
                                   "InvalidInput", {}, FALSE, Resolved(userId, {}))
          ELSE last' = EventN("findAllTuitsByUser", c, session[c], uid, -1, "ok",
                              {"read"}, FALSE,
                              Resolved(userId, TuitDao_findAllTuitsByUser(userId)))

(***************************************************************************)
(* TuitController, the earlier handlers kept in the sources: PUT and       *)
(* DELETE /api/tuits/:tid and DELETE /api/tuits without a login check, and *)
(* the handlers that resolve :uid with getUserId(req, next).               *)
(***************************************************************************)
\* getUserId(req, next): "my" without a session principal passes the
\* not-logged-in error to next and returns undefined to the handler
AuthenticationControllerV1_getUserId(uid, profile) ==
    [userId |-> IF uid # MY THEN uid
                ELSE IF profile # NoProfile THEN profile._id ELSE UNDEFINED,
     nexted |-> uid = MY /\ profile = NoProfile]

\* GET /api/users/:uid/tuits: the handler does not look at what getUserId
\* did; the answer to the client is the first of the error and the result
TuitControllerV1_findAllTuitsByUser(c, uid) ==
    LET r == AuthenticationControllerV1_getUserId(uid, session[c])
    IN /\ UNCHANGED <<session, store, nextUid, nextTid, nextUrl, reqs>>
       /\ last' = EventN("findAllTuitsByUser", c, session[c], uid, -1,
                         IF r.nexted THEN "NotAuthenticated" ELSE "ok",
                         {"read"}, r.nexted,
                         Resolved(r.userId, TuitDao_findAllTuitsByUser(r.userId)))

\* POST /api/users/:uid/tuits of a request without files (uploadMedia(req)
\* gives [] then); stored: TuitModel.create takes the document (it may
\* refuse one whose postedBy is undefined)
TuitControllerV1_createTuitByUser(c, uid, text, stored) ==
    LET r == AuthenticationControllerV1_getUserId(uid, session[c])
        out == IF r.nexted THEN "NotAuthenticated" ELSE "ok"
    IN /\ UNCHANGED <<session, users, likes, cloud, nextUid, nextUrl, reqs>>
       /\ IF text \in {"", AbsentText}
          THEN /\ last' = EventN("createTuit", c, session[c], uid, -1,
                                 IF r.nexted THEN "NotAuthenticated" ELSE "EmptyTuit",
                                 {}, r.nexted, Resolved(r.userId, {}))
               /\ UNCHANGED <<tuits, nextTid>>
          ELSE IF stored \/ ~r.nexted
               THEN /\ tuits' = TuitDao_createTuitByUser(r.userId, text, <<>>, <<>>)
                    /\ nextTid' = nextTid + 1
                    /\ last' = EventN("createTuit", c, session[c], uid, NewTid, out,
                                      {"write"}, r.nexted, Resolved(r.userId, {NewTid}))
          ELSE /\ last' = EventN("createTuit", c, session[c], uid, -1, out,
                                 {"write"}, r.nexted, Resolved(r.userId, {}))
               /\ UNCHANGED <<tuits, nextTid>>

\* updateOne({_id: tid}, {$set: req.body}): no document matched is no error
TuitControllerV1_updateTuit(c, tid, body) ==
    /\ tuits' = IF tid \in DOMAIN tuits
                THEN TuitDao_updateTuit(tid,
                         [tuits[tid] EXCEPT
                             !.tuit = IF body.tuit = AbsentText THEN @ ELSE body.tuit,
                             !.image = IF body.image.k = "absent" THEN @
                                       ELSE body.image.v,
                             !.video = IF body.video.k = "absent" THEN @
                                       ELSE body.video.v])
                ELSE tuits
    /\ last' = Event("updateTuit", c, -1, tid, "ok", {"write"})
    /\ UNCHANGED <<session, users, likes, cloud, nextUid, nextTid, nextUrl, reqs>>

TuitControllerV1_deleteTuit(c, tid) ==
    /\ tuits' = TuitDao_deleteTuit(tid)
    /\ last' = Event("deleteTuit", c, -1, tid, "ok", {"write"})
    /\ UNCHANGED <<session, users, likes, cloud, nextUid, nextTid, nextUrl, reqs>>

deleteAllTuis(c) ==
    /\ tuits' = EmptyFcn
    /\ last' = Event("deleteAllTuits", c, -1, -1, "ok", {"write"})
    /\ UNCHANGED <<session, users, likes, cloud, nextUid, nextTid, nextUrl, reqs>>

(***************************************************************************)
(* UserController.                                                         *)
(***************************************************************************)
\* req.files of PUT /api/users/:uid
NoUserFiles == [present |-> FALSE, headerImage |-> 0, profilePhoto |-> 0, accepted |-> 0]
UserFiles(nh, np) ==
    [present |-> TRUE, headerImage |-> nh, profilePhoto |-> np, accepted |-> nh + np]

\* UserModel.create(body): the unique index on username refuses a duplicate;
\* the password is stored as the body gives it
UserDao_createUser(uname, pw) ==
    users @@ ((nextUid + 1) :>
                 [username |-> uname, password |-> pw,
                  headerImage |-> DefaultPhoto, profilePhoto |-> DefaultPhoto])

\* updateOne({_id: uid}, {$set: data}); a field that is undefined is not set
UserDao_updateUser(uid, uname, header, photo) ==
    IF uid \in DOMAIN users
    THEN [users EXCEPT
            ![uid].username = IF uname = "" THEN @ ELSE uname,
            ![uid].headerImage = IF header = 0 THEN @ ELSE header,
            ![uid].profilePhoto = IF photo = 0 THEN @ ELSE photo]
    ELSE users

UserDao_deleteUser(uid) == [u \in DOMAIN users \ {uid} |-> users[u]]

\* POST /api/users with body {username, password}
createUser(c, uname, pw) ==
    IF ~checkLogin(c) THEN Reject("createUser", c, -1, -1, "NotAuthenticated")
       ELSE IF ~isAdmin(session[c].username)
            THEN Reject("createUser", c, -1, -1, "NoPermission")
       ELSE IF UserDao_findUserByUsername(uname) # {}
            THEN Reject("createUser", c, -1, -1, "DuplicateKey")
       ELSE /\ users' = UserDao_createUser(uname, pw)
            /\ nextUid' = nextUid + 1
            /\ last' = Event("createUser", c, nextUid + 1, -1, "ok", {"write"})
            /\ UNCHANGED <<session, tuits, likes, cloud, nextTid, nextUrl, reqs>>

\* PUT /api/users/:uid with body {username, headerImage, profilePhoto} (""
\* and 0: the field is missing) and the uploaded files
updateUser(c, uid, uname, bodyHeader, bodyPhoto, files) ==
    LET userId == getUserId(uid, session[c])
        up1 == uploadMedia(files.headerImage, 1, nextUrl, "image", files.accepted)
        up2 == uploadMedia(files.profilePhoto, 1, nextUrl + up1.made, "image",
                           files.accepted - up1.made)
        header == IF files.present /\ up1.urls # <<>> THEN up1.urls[1] ELSE bodyHeader
        photo == IF files.present /\ up2.urls # <<>> THEN up2.urls[1] ELSE bodyPhoto
        taken == {u \in UserDao_findUserByUsername(uname) : u # userId}
    IN IF ~checkLogin(c) THEN Reject("updateUser", c, uid, -1, "NotAuthenticated")
       ELSE IF userId = MY THEN Reject("updateUser", c, uid, -1, "InvalidInput")
       ELSE IF ~isValidId(userId) THEN Reject("updateUser", c, uid, -1, "InvalidInput")
       ELSE IF uname # "" /\ taken # {}
            THEN Reject("updateUser", c, uid, -1, "UserAlreadyExists")
       ELSE IF files.present /\ (~up1.ok \/ ~up2.ok)
            THEN \* uploadMedia is awaited outside any try: the rejection is
                 \* unhandled and the request gets no response
                 /\ cloud' = cloud \cup up1.objs \cup (IF up1.ok THEN up2.objs ELSE {})
                 /\ nextUrl' = nextUrl + up1.made + (IF up1.ok THEN up2.made ELSE 0)
                 /\ last' = Event("updateUser", c, userId, -1, "crash",
                                  IF up1.objs = {} /\ (up1.ok => up2.objs = {})
                                  THEN {} ELSE {"upload"})
                 /\ UNCHANGED <<session, users, tuits, likes, nextUid, nextTid, reqs>>
       ELSE /\ cloud' = IF files.present THEN cloud \cup up1.objs \cup up2.objs
                        ELSE cloud
            /\ nextUrl' = IF files.present
                          THEN nextUrl + up1.made + up2.made
                          ELSE nextUrl
            /\ users' = UserDao_updateUser(userId, uname, header, photo)
            /\ last' = Event("updateUser", c, userId, -1, "ok",
                             {"write"} \cup
                             (IF files.present /\ up1.objs \cup up2.objs # {}
                              THEN {"upload"} ELSE {}))
            /\ UNCHANGED <<session, tuits, likes, nextUid, nextTid, reqs>>

\* DELETE /api/users/:uid
deleteUser(c, uid) ==
    IF ~checkLogin(c) THEN Reject("deleteUser", c, uid, -1, "NotAuthenticated")
    ELSE IF uid = MY THEN Reject("deleteUser", c, uid, -1, "InvalidInput")
    ELSE IF isAdmin(session[c].username)
         THEN IF ~isValidId(uid) THEN Reject("deleteUser", c, uid, -1, "InvalidInput")
              ELSE /\ users' = UserDao_deleteUser(uid)
                   /\ last' = Event("deleteUser", c, uid, -1, "ok", {"write"})
                   /\ UNCHANGED <<session, tuits, likes, cloud, nextUid, nextTid,
                                  nextUrl, reqs>>
    ELSE Reject("deleteUser", c, uid, -1, "NoPermission")

deleteAllUsers_AnyPrincipal(c) ==
    IF ~checkLogin(c) THEN Reject("deleteAllUsers", c, -1, -1, "NotAuthenticated")
    ELSE /\ users' = EmptyFcn
         /\ last' = Event("deleteAllUsers", c, -1, -1, "ok", {"write"})
         /\ UNCHANGED <<session, tuits, likes, cloud, nextUid, nextTid,
                        nextUrl, reqs>>

\* DELETE /api/users
deleteAllUsers(c) ==
    IF ~checkLogin(c) THEN Reject("deleteAllUsers", c, -1, -1, "NotAuthenticated")
    ELSE IF isAdmin(session[c].username)
         THEN /\ users' = EmptyFcn
              /\ last' = Event("deleteAllUsers", c, -1, -1, "ok", {"write"})
              /\ UNCHANGED <<session, tuits, likes, cloud, nextUid, nextTid,
                             nextUrl, reqs>>
    ELSE Reject("deleteAllUsers", c, -1, -1, "NoPermission")

\* PUT /api/users/:uid with body {username} and no files, up to the lookup
\* of the username: checkLogin, getUserId, the id tests and findUserByUsername
updateUserFind(c, uid, uname) ==
    LET userId == getUserId(uid, session[c])
        taken == {u \in UserDao_findUserByUsername(uname) : u # userId}
    IN /\ FreeSlots # {}
       /\ IF ~checkLogin(c) THEN Reject("updateUser", c, uid, -1, "NotAuthenticated")
          ELSE IF userId = MY THEN Reject("updateUser", c, uid, -1, "InvalidInput")
          ELSE IF ~isValidId(userId) THEN Reject("updateUser", c, uid, -1, "InvalidInput")
          ELSE IF uname # "" /\ taken # {}
               THEN Reject("updateUser", c, uid, -1, "UserAlreadyExists")
          ELSE /\ reqs' = [reqs EXCEPT ![FreeSlot] =
                       [op |-> "updateUser", pc |-> "write", c |-> c,
                        who |-> session[c], uid |-> userId, uname |-> uname]]
               /\ last' = NoEvent
               /\ UNCHANGED <<session, store, nextUid, nextTid, nextUrl>>

\* userDao.updateUser(userId, data).then(res.send).catch(next); unique: the
\* users collection has the unique index on username, which refuses the
\* update when another document has the name
updateUserWrite(s, unique) ==
    LET r == reqs[s]
        taken == {u \in UserDao_findUserByUsername(r.uname) : u # r.uid}
    IN /\ r.op = "updateUser" /\ r.pc = "write"
       /\ Finish(s)
       /\ UNCHANGED <<session, tuits, likes, cloud, nextUid, nextTid, nextUrl>>
       /\ IF unique /\ r.uname # "" /\ taken # {} /\ r.uid \in DOMAIN users
          THEN /\ last' = EventN("updateUser", r.c, r.who, r.uid, -1, "DuplicateKey",
                                 {}, FALSE, r)
               /\ UNCHANGED users
          ELSE /\ users' = UserDao_updateUser(r.uid, r.uname, 0, 0)
               /\ last' = EventN("updateUser", r.c, r.who, r.uid, -1, "ok",
                                 {"write"}, FALSE, r)

(***************************************************************************)
(* The users collection under the earlier UserSchema kept in the sources,  *)
(* whose username is required but not unique: the store refuses no insert  *)
(* and no update for the name it carries.                                  *)
(***************************************************************************)
\* register's createUser, redaction, session and response
registerCreateV1(s) ==
    LET r == reqs[s]
        uid == nextUid + 1
        doc == Redact([_id |-> uid, username |-> r.uname, password |-> r.digest])
    IN /\ r.op = "register" /\ r.pc = "create"
       /\ Finish(s)
       /\ UNCHANGED <<tuits, likes, cloud, nextTid, nextUrl>>
       /\ users' = users @@ (uid :> [username |-> r.uname, password |-> r.digest,
                                     headerImage |-> DefaultPhoto,
                                     profilePhoto |-> DefaultPhoto])
       /\ nextUid' = uid
       /\ session' = [session EXCEPT ![r.c] = doc]
       /\ last' = EventN("register", r.c, r.who, uid, -1, "ok", {"write"}, FALSE,
                         AuthRun(r.uname, r.pw, doc))

\* POST /api/users: the handler itself looks no username up
createUserV1(c, uname, pw) ==
    IF ~checkLogin(c) THEN Reject("createUser", c, -1, -1, "NotAuthenticated")
       ELSE IF ~isAdmin(session[c].username)
            THEN Reject("createUser", c, -1, -1, "NoPermission")
       ELSE /\ users' = UserDao_createUser(uname, pw)
            /\ nextUid' = nextUid + 1
            /\ last' = Event("createUser", c, nextUid + 1, -1, "ok", {"write"})
            /\ UNCHANGED <<session, tuits, likes, cloud, nextTid, nextUrl, reqs>>

(***************************************************************************)
(* CloudinaryController.deleteTrashMedia: DELETE /api/cloudinary/media     *)
(***************************************************************************)
Range(f) == {f[i] : i \in DOMAIN f}

\* findAllLocalMedia, first half: every tuit's image and video URLs
TuitMedia ==
    UNION {Range(tuits[t].image) \cup Range(tuits[t].video) : t \in DOMAIN tuits}

\* findAllLocalMedia, second half: every user's header image and profile photo
UserMedia ==
    UNION {{users[u].headerImage, users[u].profilePhoto} : u \in DOMAIN users}

\* cloudinary.api.resources(...) is called without max_results and without a
\* cursor: the answer is one page, all of the kind's resources when they are
\* no more than MAX_RESULTS, else MAX_RESULTS of them
Pages(S) ==
    IF Cardinality(S) <= MAX_RESULTS THEN {S}
    ELSE {P \in SUBSET S : Cardinality(P) = MAX_RESULTS}

\* the answers the call can give
CloudinaryDao_findCloudImages == Pages({o \in cloud : o.kind = "image"})

CloudinaryDao_findCloudVideos == Pages({o \in cloud : o.kind = "video"})

Trash_All(listed, localMedia) == listed

\* the resources of a listing that the local media do not hold
Trash(listed, localMedia) == {o \in listed : o.url \notin localMedia}

\* delete_resources(publicIds): a resource already gone is no error
CloudinaryDao_deleteMedia(trash) == cloud \ trash

\* checkLogin, isAdmin
reconcileStart(c) ==
    /\ FreeSlots # {}
    /\ IF ~checkLogin(c) THEN Reject("reconcile", c, -1, -1, "NotAuthenticated")
       ELSE IF ~isAdmin(session[c].username)
            THEN Reject("reconcile", c, -1, -1, "NoPermission")
       ELSE /\ reqs' = [reqs EXCEPT ![FreeSlot] =
                    [op |-> "reconcile", pc |-> "scanTuits", c |-> c,
                     who |-> session[c], localMedia |-> {}, images |-> {},
                     videos |-> {}, calls |-> <<>>, deleted |-> {}, eff |-> {}]]
            /\ last' = NoEvent
            /\ UNCHANGED <<session, store, nextUid, nextTid, nextUrl>>

\* tuits = await tuitDao.findAllTuits()
reconcileScanTuits(s) ==
    LET r == reqs[s]
    IN /\ r.op = "reconcile" /\ r.pc = "scanTuits"
       /\ reqs' = [reqs EXCEPT ![s].pc = "scanUsers",
                     ![s].localMedia = TuitMedia, ![s].eff = @ \cup {"scan"}]
       /\ last' = NoEvent
       /\ UNCHANGED <<session, store, nextUid, nextTid, nextUrl>>

\* users = await userDao.findAllUsers()
reconcileScanUsers(s) ==
    LET r == reqs[s]
    IN /\ r.op = "reconcile" /\ r.pc = "scanUsers"
       /\ reqs' = [reqs EXCEPT ![s].pc = "listImages",
                     ![s].localMedia = @ \cup UserMedia]
       /\ last' = NoEvent
       /\ UNCHANGED <<session, store, nextUid, nextTid, nextUrl>>

\* media[IMAGE_FIELD] = await this.findCloudImages()
reconcileListImages(s) ==
    LET r == reqs[s]
    IN /\ r.op = "reconcile" /\ r.pc = "listImages"
       /\ \E page \in CloudinaryDao_findCloudImages :
              reqs' = [reqs EXCEPT ![s].pc = "listVideos", ![s].images = page,
                         ![s].eff = @ \cup {"list"}]
       /\ last' = NoEvent
       /\ UNCHANGED <<session, store, nextUid, nextTid, nextUrl>>

ReconcileDone(s, r, out) ==
    /\ last' = EventN("reconcile", r.c, r.who, -1, -1, out, r.eff, FALSE, r)
    /\ Finish(s)

\* media[VIDEO_FIELD] = await this.findCloudVideos(), and the two loops that
\* collect the trash ids; a delete call is made only for a non-empty list
reconcileListVideos(s) ==
    LET r == reqs[s]
    IN /\ r.op = "reconcile" /\ r.pc = "listVideos"
       /\ UNCHANGED <<session, store, nextUid, nextTid, nextUrl>>
       /\ \E page \in CloudinaryDao_findCloudVideos :
              LET q == [r EXCEPT !.videos = page]
              IN IF Trash(q.images, q.localMedia) # {}
                 THEN /\ reqs' = [reqs EXCEPT ![s] = [q EXCEPT !.pc = "deleteImages"]]
                      /\ last' = NoEvent
                 ELSE IF Trash(q.videos, q.localMedia) # {}
                      THEN /\ reqs' = [reqs EXCEPT ![s] = [q EXCEPT !.pc = "deleteVideos"]]
                           /\ last' = NoEvent
                      ELSE ReconcileDone(s, q, "ok")

\* the error of the images' delete is dropped and the run goes on
reconcileDeleteImages_GoOn(s, fails) ==
    LET r == reqs[s]
        trash == Trash(r.images, r.localMedia)
        q == [r EXCEPT !.calls = Append(@, "image"),
                       !.deleted = IF fails THEN @ ELSE @ \cup (trash \cap cloud),
                       !.eff = IF fails THEN @ ELSE @ \cup {"destroy"}]
    IN /\ r.op = "reconcile" /\ r.pc = "deleteImages"
       /\ cloud' = IF fails THEN cloud ELSE CloudinaryDao_deleteMedia(trash)
       /\ UNCHANGED <<session, users, tuits, likes, nextUid, nextTid, nextUrl>>
       /\ IF Trash(r.videos, r.localMedia) # {}
          THEN /\ reqs' = [reqs EXCEPT ![s] = [q EXCEPT !.pc = "deleteVideos"]]
               /\ last' = NoEvent
          ELSE ReconcileDone(s, q, "ok")

\* await cloudinaryDao.deleteImages(trashImageIds); fails: the call throws
reconcileDeleteImages(s, fails) ==
    LET r == reqs[s]
        trash == Trash(r.images, r.localMedia)
        q == [r EXCEPT !.calls = Append(@, "image"),
                       !.deleted = IF fails THEN @ ELSE @ \cup (trash \cap cloud),
                       !.eff = IF fails THEN @ ELSE @ \cup {"destroy"}]
    IN /\ r.op = "reconcile" /\ r.pc = "deleteImages"
       /\ cloud' = IF fails THEN cloud ELSE CloudinaryDao_deleteMedia(trash)
       /\ UNCHANGED <<session, users, tuits, likes, nextUid, nextTid, nextUrl>>
       /\ IF fails THEN ReconcileDone(s, q, "StoreError")
          ELSE IF Trash(r.videos, r.localMedia) # {}
               THEN /\ reqs' = [reqs EXCEPT ![s] = [q EXCEPT !.pc = "deleteVideos"]]
                    /\ last' = NoEvent
               ELSE ReconcileDone(s, q, "ok")

\* await cloudinaryDao.deleteVideos(trashVideoIds); res.sendStatus(200)
reconcileDeleteVideos(s, fails) ==
    LET r == reqs[s]
        trash == Trash(r.videos, r.localMedia)
        q == [r EXCEPT !.calls = Append(@, "video"),
                       !.deleted = IF fails THEN @ ELSE @ \cup (trash \cap cloud),
                       !.eff = IF fails THEN @ ELSE @ \cup {"destroy"}]
    IN /\ r.op = "reconcile" /\ r.pc = "deleteVideos"
       /\ cloud' = IF fails THEN cloud ELSE CloudinaryDao_deleteMedia(trash)
       /\ UNCHANGED <<session, users, tuits, likes, nextUid, nextTid, nextUrl>>
       /\ ReconcileDone(s, q, IF fails THEN "StoreError" ELSE "ok")

(***************************************************************************)
(* Requests a client can send, and the specifications.                     *)
(***************************************************************************)

Uploads(files) == IF files.present THEN files.image + files.video ELSE 0

\* the response (or the error) reaches the client
deliver ==
    /\ last # NoEvent
    /\ last' = NoEvent
    /\ UNCHANGED <<session, store, nextUid, nextTid, nextUrl, reqs>>

\* the steps of the requests in flight
Step ==
    \E s \in Slots :
        \/ toggleFindTuit(s)
        \/ toggleFindLiked(s)
        \/ toggleWrite(s)
        \/ toggleCount(s)
        \/ toggleUpdate(s)
        \/ reconcileScanTuits(s)
        \/ reconcileScanUsers(s)
        \/ reconcileListImages(s)
        \/ reconcileListVideos(s)
        \/ \E fails \in BOOLEAN : reconcileDeleteImages(s, fails)
        \/ \E fails \in BOOLEAN : reconcileDeleteVideos(s, fails)

Body(text, image, video) == [tuit |-> text, image |-> image, video |-> video]

\* a request arrives: the whole API, with small payloads
Request ==
    \E c \in Clients :
        \/ \E uname \in {"", "alice", "bob", "root"}, pw \in {1, 2} :
               login(c, uname, pw)
        \/ logout(c)
        \/ \E tid \in TuitIds : toggleStart(c, MY, tid)
        \/ \E uid \in {MY, 1}, text \in {"", "hello"}, files \in {NoFiles, Files(1, 0)} :
               /\ nextTid < ApiTuits
               /\ nextUrl + Uploads(files) <= ApiObjects
               /\ createTuitByUser(c, uid, Body(text, AbsentField, AbsentField), files)
        \/ \E uid \in {MY, 1}, tid \in TuitIds :
               updateTuit(c, uid, tid, Body("bye", AbsentField, AbsentField), NoFiles)
        \/ \E tid \in TuitIds : deleteTuit(c, tid)
        \/ deleteAllTuits(c)
        \/ /\ nextUid < MaxUsers
           /\ createUser(c, "carol", 1)
        \/ \E uid \in {MY, 1}, files \in {NoUserFiles, UserFiles(1, 0)} :
               /\ nextUrl + files.headerImage + files.profilePhoto <= ApiObjects
               /\ updateUser(c, uid, "", 0, 0, files)
        \/ \E uid \in {MY, 2} : deleteUser(c, uid)
        \/ deleteAllUsers(c)
        \/ reconcileStart(c)

\* one request at a time: each handler runs to its end before the next
Next ==
    \/ deliver
    \/ last = NoEvent /\ Quiet /\ Request
    \/ last = NoEvent /\ Step

Spec == Init /\ [][Next]_vars

(***************************************************************************)
(* The like ledger, one request at a time.                                 *)
(***************************************************************************)
ToggleSteps ==
    \E s \in Slots :
        \/ toggleFindTuit(s)
        \/ toggleFindLiked(s)
        \/ toggleWrite(s)
        \/ toggleCount(s)
        \/ toggleUpdate(s)

RequestLike ==
    \E c \in Clients :
        \/ \E uname \in {"alice", "bob"} :
               login(c, uname, IF uname = "bob" THEN 2 ELSE 1)
        \/ \E uid \in {MY, 2}, tid \in TuitIds : toggleStart(c, uid, tid)
        \/ /\ nextTid < MaxTuits
           /\ createTuitByUser(c, MY, Body("hello", AbsentField, AbsentField), NoFiles)
        \/ \E tid \in TuitIds :
               updateTuit(c, MY, tid, Body("bye", AbsentField, AbsentField), NoFiles)
        \/ \E tid \in TuitIds : deleteTuit(c, tid)

NextLike ==
    \/ deliver
    \/ last = NoEvent /\ Quiet /\ RequestLike
    \/ last = NoEvent /\ ToggleSteps

SpecLike == Init /\ [][NextLike]_vars

(***************************************************************************)
(* The like ledger with requests in flight together: a handler's awaits    *)
(* let the steps of another request run in between.                        *)
(***************************************************************************)
RequestToggle ==
    \E c \in Clients :
        \/ login(c, "alice", 1)
        \/ /\ nextTid < ApiTuits
           /\ createTuitByUser(c, MY, Body("hello", AbsentField, AbsentField), NoFiles)
        \/ \E uid \in {MY, 2}, tid \in TuitIds : toggleStart(c, uid, tid)

NextToggle ==
    \/ deliver
    \/ last = NoEvent /\ RequestToggle
    \/ last = NoEvent /\ ToggleSteps

SpecToggle == Init /\ [][NextToggle]_vars

(***************************************************************************)
(* The whole API together with the earlier tuit routes.                    *)
(***************************************************************************)
RequestV1 ==
    \E c \in Clients, tid \in TuitIds :
        \/ TuitControllerV1_updateTuit(c, tid, Body("bye", AbsentField, AbsentField))
        \/ TuitControllerV1_deleteTuit(c, tid)
        \/ deleteAllTuis(c)

NextLegacy ==
    \/ deliver
    \/ last = NoEvent /\ Quiet /\ Request
    \/ last = NoEvent /\ Quiet /\ RequestV1
    \/ last = NoEvent /\ Step

SpecLegacy == Init /\ [][NextLegacy]_vars

(***************************************************************************)
(* Media reconciliation, one request at a time: tuits and header images    *)
(* with uploads, edits that drop them, and the admin's reconcile runs.     *)
(***************************************************************************)
ReconcileSteps ==
    \E s \in Slots :
        \/ reconcileScanTuits(s)
        \/ reconcileScanUsers(s)
        \/ reconcileListImages(s)
        \/ reconcileListVideos(s)
        \/ \E fails \in BOOLEAN : reconcileDeleteImages(s, fails)
        \/ \E fails \in BOOLEAN : reconcileDeleteVideos(s, fails)

RequestRecon ==
    \E c \in Clients :
        \/ \E uname \in {"alice", "root"} : login(c, uname, 1)
        \/ \E files \in {Files(0, 1), Files(IMAGE_LIMIT, 0)} :
               /\ nextTid < ReconTuits
               /\ nextUrl + Uploads(files) <= ReconObjects
               /\ createTuitByUser(c, MY, Body("hello", AbsentField, AbsentField), files)
        \/ \E tid \in TuitIds :
               /\ nextUrl + IMAGE_LIMIT <= ReconObjects
               /\ updateTuit(c, MY, tid, Body("bye", AbsentField, AbsentField),
                             Files(IMAGE_LIMIT, 0))
        \/ /\ nextUrl + 1 <= ReconObjects
           /\ updateUser(c, MY, "", 0, 0, UserFiles(1, 0))
        \/ reconcileStart(c)

NextRecon ==
    \/ deliver
    \/ last = NoEvent /\ Quiet /\ RequestRecon
    \/ last = NoEvent /\ ReconcileSteps

SpecRecon == Init /\ [][NextRecon]_vars

(***************************************************************************)
(* Tuit writes with media: URLs in the body, uploaded files, or both.      *)
(***************************************************************************)
Copies(n) == [i \in 1 .. n |-> ExtUrl]

BodyImages == {AbsentField, StrField(ExtUrl), ArrField(Copies(IMAGE_LIMIT)),
               ArrField(Copies(IMAGE_LIMIT + 1))}

BodyVideos == {AbsentField, StrField(ExtUrl), ArrField(Copies(VIDEO_LIMIT + 1))}

FileSets ==
    {NoFiles} \cup {Files(ni, nv) : ni \in {0, 1, IMAGE_LIMIT, IMAGE_LIMIT + 1},
                                    nv \in {0, VIDEO_LIMIT, VIDEO_LIMIT + 1}}

RequestMedia ==
    \E c \in Clients, image \in BodyImages, video \in BodyVideos, files \in FileSets :
        \/ login(c, "alice", 1)
        \/ /\ nextTid < MediaTuits
           /\ nextUrl + Uploads(files) <= MediaObjects
           /\ createTuitByUser(c, MY, Body("hello", image, video), files)
        \/ \E tid \in TuitIds :
               /\ nextUrl + Uploads(files) <= MediaObjects
               /\ updateTuit(c, MY, tid, Body("bye", image, video), files)

NextMedia ==
    \/ deliver
    \/ last = NoEvent /\ RequestMedia

SpecMedia == Init /\ [][NextMedia]_vars

(***************************************************************************)
(* Media reconciliation while other requests arrive: a tuit or user write  *)
(* runs between the awaits of deleteTrashMedia.                            *)
(***************************************************************************)
RequestRace ==
    \E c \in Clients :
        \/ \E uname \in {"alice", "root"} : login(c, uname, 1)
        \/ \E files \in {Files(1, 0), Files(0, 1)} :
               /\ nextTid < RaceTuits
               /\ nextUrl + Uploads(files) <= RaceObjects
               /\ createTuitByUser(c, MY, Body("hello", AbsentField, AbsentField), files)
        \/ \E tid \in TuitIds :
               /\ nextUrl + 1 <= RaceObjects
               /\ updateTuit(c, MY, tid, Body("bye", AbsentField, AbsentField),
                             Files(1, 0))
        \/ /\ nextUrl + 1 <= RaceObjects
           /\ updateUser(c, MY, "", 0, 0, UserFiles(0, 1))
        \/ reconcileStart(c)

NextRace ==
    \/ deliver
    \/ last = NoEvent /\ RequestRace
    \/ last = NoEvent /\ ReconcileSteps

SpecRace == Init /\ [][NextRace]_vars

(***************************************************************************)
(* Tuit writes during which the media store throws at an upload, and the   *)
(* reconcile runs after them, one request at a time.                       *)
(***************************************************************************)
RequestOrphan ==
    \E c \in Clients :
        \/ \E uname \in {"alice", "root"} : login(c, uname, 1)
        \/ \E files \in {Files(IMAGE_LIMIT, 0),
                          FilesFailing(IMAGE_LIMIT, 0, IMAGE_LIMIT - 1)} :
               /\ nextTid < OrphanTuits
               /\ nextUrl + files.accepted <= OrphanObjects
               /\ createTuitByUser(c, MY, Body("hello", AbsentField, AbsentField), files)
        \/ \E tid \in TuitIds, k \in {1, IMAGE_LIMIT - 1} :
               /\ nextUrl + k <= OrphanObjects
               /\ updateTuit(c, MY, tid, Body("bye", AbsentField, AbsentField),
                             FilesFailing(IMAGE_LIMIT, 0, k))
        \/ reconcileStart(c)

NextOrphan ==
    \/ deliver
    \/ last = NoEvent /\ Quiet /\ RequestOrphan
    \/ last = NoEvent /\ ReconcileSteps

SpecOrphan == Init /\ [][NextOrphan]_vars

(***************************************************************************)
(* The authentication endpoints, with requests in flight together.         *)
(***************************************************************************)
RequestAuth ==
    \E c \in Clients :
        \/ \E uname \in {"", "alice", "bob", "carol", "dave"}, pw \in {0, 1, 2} :
               login(c, uname, pw)
        \/ logout(c)
        \/ \E uname \in {"", "alice", "carol"}, pw \in {0, 1, 2} :
               /\ nextUid < 3 + AuthUsers
               /\ registerStart(c, uname, pw)

NextAuth ==
    \/ deliver
    \/ last = NoEvent /\ RequestAuth
    \/ last = NoEvent /\ \E s \in Slots : registerCreate(s)

SpecAuth == Init /\ [][NextAuth]_vars

(***************************************************************************)
(* Requests that name a user in their path, as "my" or by id, sent with    *)
(* and without a session, to the handlers of both generations.             *)
(***************************************************************************)
RequestResolve ==
    \E c \in Clients, uid \in {MY, 1, 2} :
        \/ \E uname \in {"alice", "bob"} :
               login(c, uname, IF uname = "bob" THEN 2 ELSE 1)
        \/ logout(c)
        \/ findAllTuitsByUser(c, uid)
        \/ /\ nextTid < ResolveTuits
           /\ createTuitByUser(c, uid, Body("hello", AbsentField, AbsentField), NoFiles)
        \/ \E tid \in TuitIds : toggleStart(c, uid, tid)
        \/ TuitControllerV1_findAllTuitsByUser(c, uid)
        \/ \E text \in {"", "hello"}, stored \in BOOLEAN :
               /\ nextTid < ResolveTuits
               /\ TuitControllerV1_createTuitByUser(c, uid, text, stored)

NextResolve ==
    \/ deliver
    \/ last = NoEvent /\ Quiet /\ RequestResolve
    \/ last = NoEvent /\ ToggleSteps

SpecResolve == Init /\ [][NextResolve]_vars

(***************************************************************************)
(* The uploader alone: CloudinaryDao.uploadMedia called with asset lists   *)
(* of every length up to MaxAssets (0: no list), under either limit, with  *)
(* a media store that takes every upload or throws at some upload.         *)
(***************************************************************************)
\* await cloudinaryDao.uploadMedia(assets, limit), as any caller makes it
CloudinaryDao_uploadMedia(n, limit, kind, accepted) ==
    LET up == uploadMedia(n, limit, nextUrl, kind, accepted)
    IN /\ cloud' = cloud \cup up.objs
       /\ nextUrl' = nextUrl + up.made
       /\ last' = EventN("uploadMedia", 0, NoProfile, -1, -1,
                         IF up.ok THEN "ok" ELSE up.err,
                         IF up.objs = {} THEN {} ELSE {"upload"}, FALSE,
                         [n |-> n, limit |-> limit, accepted |-> accepted,
                          urls |-> up.urls])
       /\ UNCHANGED <<session, users, tuits, likes, nextUid, nextTid, reqs>>

RequestUpload ==
    \E n \in 0 .. MaxAssets, limit \in {VIDEO_LIMIT, IMAGE_LIMIT},
       accepted \in 0 .. MaxAssets :
        /\ accepted <= n
        /\ nextUrl + n <= UploadObjects
        /\ CloudinaryDao_uploadMedia(n, limit,
               IF limit = VIDEO_LIMIT THEN "video" ELSE "image", accepted)

NextUpload ==
    \/ deliver
    \/ last = NoEvent /\ RequestUpload

SpecUpload == Init /\ [][NextUpload]_vars

(***************************************************************************)
(* The user accounts, with requests in flight together: logins, registers, *)
(* renames, and the administrator's creates and deletes.                   *)
(***************************************************************************)
RequestUsers ==
    \E c \in Clients :
        \/ \E uname \in {"alice", "root"} : login(c, uname, 1)
        \/ logout(c)
        \/ \E uname \in {"root", "carol"} :
               /\ nextUid < 3 + NewUsers
               /\ registerStart(c, uname, 1)
        \/ /\ nextUid < 3 + NewUsers
           /\ createUser(c, "carol", 1)
        \/ \E uname \in {"root", "boss", "carol"} : updateUserFind(c, MY, uname)
        \/ \E uid \in {1, 3} : deleteUser(c, uid)

NextUsers ==
    \/ deliver
    \/ last = NoEvent /\ RequestUsers
    \/ last = NoEvent /\ \E s \in Slots : registerCreate(s)
    \/ last = NoEvent /\ \E s \in Slots : updateUserWrite(s, TRUE)

SpecUsers == Init /\ [][NextUsers]_vars

(***************************************************************************)
(* Toggles and reconcile runs during which a call to the document store or *)
(* to the media store throws.                                              *)
(***************************************************************************)
\* an awaited call of userTogglesLikesTuit that stands outside any try and
\* has no catch (findTuitById, findUserAlreadyLikedTuit,
\* findHowManyLikedTuit, updateTuit) rejects: the handler's promise rejects,
\* nothing takes the rejection and no response is sent
toggleThrows(s) ==
    LET r == reqs[s]
    IN /\ r.op = "toggle" /\ r.pc \in {"findTuit", "findLiked", "count", "update"}
       /\ last' = EventN("toggle", r.c, r.who, r.uid, r.tid, "crash", r.eff,
                         r.nexted, r)
       /\ Finish(s)
       /\ UNCHANGED <<session, store, nextUid, nextTid, nextUrl>>

\* userLikesTuit or userUnlikesTuit rejects: .catch(next) passes the error
\* to the error handler and resolves, and the handler goes on to the count
toggleWriteThrows(s) ==
    LET r == reqs[s]
    IN /\ r.op = "toggle" /\ r.pc = "write"
       /\ reqs' = [reqs EXCEPT ![s].pc = "count", ![s].nexted = TRUE]
       /\ last' = EventN("toggle", r.c, r.who, r.uid, r.tid, "StoreError", r.eff,
                         FALSE, r)
       /\ UNCHANGED <<session, store, nextUid, nextTid, nextUrl>>

\* the same for deleteTrashMedia's findAllLocalMedia (findAllTuits,
\* findAllUsers) and findCloudMedia (the two listings), awaited before the
\* try block of the deletes
reconcileThrows(s) ==
    LET r == reqs[s]
    IN /\ r.op = "reconcile"
       /\ r.pc \in {"scanTuits", "scanUsers", "listImages", "listVideos"}
       /\ last' = EventN("reconcile", r.c, r.who, -1, -1, "crash", r.eff, FALSE, r)
       /\ Finish(s)
       /\ UNCHANGED <<session, store, nextUid, nextTid, nextUrl>>

RequestFail ==
    \E c \in Clients :
        \/ \E uname \in {"alice", "root"} : login(c, uname, 1)
        \/ /\ nextTid < FailTuits
           /\ createTuitByUser(c, MY, Body("hello", AbsentField, AbsentField), NoFiles)
        \/ \E tid \in TuitIds : toggleStart(c, MY, tid)
        \/ reconcileStart(c)

\* the steps of the requests in flight: each awaited call returns or throws
StepFail ==
    \E s \in Slots :
        \/ toggleFindTuit(s)
        \/ toggleFindLiked(s)
        \/ toggleWrite(s)
        \/ toggleCount(s)
        \/ toggleUpdate(s)
        \/ toggleThrows(s)
        \/ toggleWriteThrows(s)
        \/ reconcileScanTuits(s)
        \/ reconcileScanUsers(s)
        \/ reconcileListImages(s)
        \/ reconcileListVideos(s)
        \/ reconcileThrows(s)

NextFail ==
    \/ deliver
    \/ last = NoEvent /\ Quiet /\ RequestFail
    \/ last = NoEvent /\ StepFail

\* the event loop runs every handler that can go on, and sends what is to
\* be sent
SpecFail ==
    Init /\ [][NextFail]_vars /\ WF_vars(deliver) /\ WF_vars(last = NoEvent /\ StepFail)

(***************************************************************************)
(* Toggles in flight while their tuit is updated or deleted: the owner's   *)
(* request runs between the awaits of userTogglesLikesTuit.                *)
(***************************************************************************)
RequestWrites ==
    \E c \in Clients :
        \/ login(c, "alice", 1)
        \/ /\ nextTid < WriteTuits
           /\ createTuitByUser(c, MY, Body("hello", AbsentField, AbsentField), NoFiles)
        \/ \E tid \in TuitIds :
               updateTuit(c, MY, tid, Body("bye", AbsentField, AbsentField), NoFiles)
        \/ \E tid \in TuitIds : deleteTuit(c, tid)
        \/ \E tid \in TuitIds : toggleStart(c, MY, tid)

NextWrites ==
    \/ deliver
    \/ last = NoEvent /\ RequestWrites
    \/ last = NoEvent /\ ToggleSteps

SpecWrites == Init /\ [][NextWrites]_vars

(***************************************************************************)
(* The user accounts under the earlier UserSchema, with requests in flight *)
(* together.                                                               *)
(***************************************************************************)
RequestUsersV1 ==
    \E c \in Clients :
        \/ \E uname \in {"alice", "root"} : login(c, uname, 1)
        \/ \E uname \in {"alice", "carol"} :
               /\ nextUid < 3 + NewUsers
               /\ registerStart(c, uname, 1)
        \/ \E uname \in {"alice", "carol"} :
               /\ nextUid < 3 + NewUsers
               /\ createUserV1(c, uname, 1)
        \/ \E uname \in {"bob", "carol"} : updateUserFind(c, MY, uname)

NextUsersV1 ==
    \/ deliver
    \/ last = NoEvent /\ RequestUsersV1
    \/ last = NoEvent /\ \E s \in Slots : registerCreateV1(s)
    \/ last = NoEvent /\ \E s \in Slots : updateUserWrite(s, FALSE)

SpecUsersV1 == Init /\ [][NextUsersV1]_vars

(***************************************************************************)
(* Two sessions open at a time: a user's and the administrator's, who      *)
(* deletes the user; requests handled one at a time.                       *)
(***************************************************************************)
RequestStale ==
    \E c \in AllClients :
        \/ \E uname \in {"bob", "root"} :
               login(c, uname, IF uname = "bob" THEN 2 ELSE 1)
        \/ /\ nextTid < StaleTuits
           /\ createTuitByUser(c, MY, Body("hello", AbsentField, AbsentField), NoFiles)
        \/ \E tid \in TuitIds :
               updateTuit(c, MY, tid, Body("bye", AbsentField, AbsentField), NoFiles)
        \/ \E tid \in TuitIds : toggleStart(c, MY, tid)
        \/ updateUser(c, MY, "", 0, ExtUrl, NoUserFiles)
        \/ deleteUser(c, 2)

NextStale ==
    \/ deliver
    \/ last = NoEvent /\ Quiet /\ RequestStale
    \/ last = NoEvent /\ ToggleSteps

SpecStale == Init /\ [][NextStale]_vars

(***************************************************************************)
(* Properties.                                                             *)
(***************************************************************************)
\* the number of LikeRecords that name a tuit
RecordCount(tid) ==
    Cardinality({p \in UserIds \X (1 .. MaxInflight + 1) :
                    p[2] <= likes[<<tid, p[1]>>]})

Regular(p) == p # NoProfile /\ p.username \notin admins

\* C3: a logged-in principal who is neither the owner of a tuit nor an
\* administrator gets NoPermission on its update or delete and the tuit
\* stays as it was; an administrator's update or delete succeeds
C3_OwnershipGate ==
    [][(/\ last'.op \in {"updateTuit", "deleteTuit"}
        /\ last'.who # NoProfile
        /\ last'.tid \in DOMAIN tuits
        /\ tuits[last'.tid].postedBy # last'.who._id)
       => IF Regular(last'.who)
          THEN last'.out = "NoPermission" /\ tuits' = tuits
          ELSE last'.out = "ok"]_vars

\* the endpoints that create, update or delete a user, a tuit, a like or
\* remote media
MutatingOps ==
    {"createUser", "updateUser", "deleteUser", "deleteAllUsers", "createTuit",
     "updateTuit", "deleteTuit", "deleteAllTuits", "toggle", "reconcile"}

\* C4: a request to a mutating endpoint whose session holds no principal
\* ends with the not-logged-in error
C4_MutationsNeedLogin ==
    (last.op \in MutatingOps /\ last.who = NoProfile)
        => last.out = "NotAuthenticated"

\* C5: a request refused with NotAuthenticated or NoPermission has written
\* nothing: users, tuits, likes and remote objects are as they were, and no
\* earlier step of the request wrote, uploaded or destroyed anything
C5_RefusalWritesNothing ==
    [][last'.out \in {"NotAuthenticated", "NoPermission"}
       => /\ users' = users /\ tuits' = tuits /\ likes' = likes /\ cloud' = cloud
          /\ last'.eff = {}]_vars

\* a non-owner was just refused the delete of a tuit that has an uploaded image
C5_Witness ==
    /\ last.op = "deleteTuit" /\ last.out = "NoPermission"
    /\ last.tid \in DOMAIN tuits
    /\ cloud # {}

\* the URLs the documents hold: every tuit's images and videos, every
\* user's profile photo and header image
ReferenceSet ==
    {u \in ObjectUrls \cup {ExtUrl, DefaultPhoto, UNDEFINED} :
        \/ \E t \in DOMAIN tuits :
              \/ \E i \in 1 .. Len(tuits[t].image) : tuits[t].image[i] = u
              \/ \E i \in 1 .. Len(tuits[t].video) : tuits[t].video[i] = u
        \/ \E x \in DOMAIN users :
              users[x].profilePhoto = u \/ users[x].headerImage = u}

\* C6: after a reconcile run that completes, with no other request in
\* between, no remote object is left whose url is outside the reference set
\* of the documents, which is the set the run computed; no object it deleted
\* has its url in that set; and it made at most one delete call per kind
C6_DeletesExactlyOrphans ==
    (last.op = "reconcile" /\ last.out = "ok")
        => LET r == last.run
           IN /\ r.localMedia = ReferenceSet
              /\ \A o \in cloud : o.url \in ReferenceSet
              /\ \A o \in r.deleted : o.url \notin ReferenceSet
              /\ Len(r.calls) <= 2
              /\ \A i, j \in DOMAIN r.calls : r.calls[i] = r.calls[j] => i = j

\* the same for a store that one page lists: whenever the run's listings
\* were complete
ReconcileOnePage ==
    (last.op = "reconcile" /\ last.out = "ok"
       /\ Cardinality(last.run.images) < MAX_RESULTS
       /\ Cardinality(last.run.videos) < MAX_RESULTS)
        => LET r == last.run
           IN /\ r.localMedia = ReferenceSet
              /\ \A o \in cloud : o.url \in ReferenceSet
              /\ \A o \in r.deleted : o.url \notin ReferenceSet
              /\ Len(r.calls) <= 2
              /\ \A i, j \in DOMAIN r.calls : r.calls[i] = r.calls[j] => i = j

\* a run deleted an orphaned image and an orphaned video, each with its own
\* call, and left a referenced object in place
C6_Witness ==
    /\ last.op = "reconcile" /\ last.out = "ok"
    /\ Len(last.run.calls) = 2
    /\ \E o \in last.run.deleted : o.kind = "image"
    /\ \E o \in last.run.deleted : o.kind = "video"
    /\ cloud # {}

\* the operations only an administrator may perform
AdminOps == {"createUser", "deleteUser", "deleteAllUsers", "deleteAllTuits", "reconcile"}

\* C7 as stated: every admin-only operation asked by a logged-in
\* non-administrator is refused with NoPermission
C7_RefusedWithNoPermission ==
    (last.op \in AdminOps /\ Regular(last.who)) => last.out = "NoPermission"

\* C7: an admin-only operation asked by a logged-in non-administrator is
\* refused and changes nothing; the refusal is NoPermission, except that
\* DELETE /api/users/my is refused with InvalidInput; no reconcile run of a
\* non-administrator ever scans, lists or deletes
C7_AdminOnlyRefused ==
    [][/\ (last'.op \in AdminOps /\ Regular(last'.who))
          => /\ \/ last'.out = "NoPermission"
                \/ last'.op = "deleteUser" /\ last'.uid = MY
                                           /\ last'.out = "InvalidInput"
             /\ last'.eff = {}
             /\ users' = users /\ tuits' = tuits /\ likes' = likes /\ cloud' = cloud
       /\ \A s \in Slots : reqs'[s].op = "reconcile" => ~Regular(reqs'[s].who)]_vars

\* a regular user was just refused the delete of their own account
C7_Witness ==
    /\ last.op = "deleteUser" /\ last.out = "NoPermission"
    /\ Regular(last.who)
    /\ last.uid = last.who._id

\* C8: every stored tuit has images or a video but not both, at most
\* IMAGE_LIMIT images and at most VIDEO_LIMIT videos
C8_ImagesXorVideo ==
    \A t \in DOMAIN tuits :
        /\ ~(Len(tuits[t].image) > 0 /\ Len(tuits[t].video) > 0)
        /\ Len(tuits[t].image) <= IMAGE_LIMIT
        /\ Len(tuits[t].video) <= VIDEO_LIMIT

\* a tuit write that passed the login, id and ownership checks
Admitted ==
    /\ last.op \in {"createTuit", "updateTuit"}
    /\ last.out \notin {"NotAuthenticated", "InvalidInput", "NoSuchUser",
                        "EmptyTuit", "NoPermission"}

ImageCount(run) ==
    Len(run.image) + (IF run.files.present THEN run.files.image ELSE 0)

VideoCount(run) ==
    Len(run.video) + (IF run.files.present THEN run.files.video ELSE 0)

\* C9: a tuit write that brings both image and video content is rejected
\* with MultiTypeMedia and uploads nothing
C9_BothKindsRejected ==
    (Admitted /\ ImageCount(last.run) > 0 /\ VideoCount(last.run) > 0)
        => last.out = "MultiTypeMedia" /\ last.eff = {}

\* the URLs the uploader returned to the request: the objects numbered
\* from..to, in order
Uploaded(from, to) == [i \in 1 .. (to - from) |-> UrlOf(from + i)]

\* C10: an accepted update stores the body's image URLs followed by the
\* uploaded ones, likewise for video; an update whose combined count is over
\* a limit is rejected with MediaContentExceedsLimit and leaves the tuit as
\* it was
C10_UpdateConcatenates ==
    [][(last'.op = "updateTuit" /\ last'.tid \in DOMAIN tuits
        /\ last'.out \notin {"NotAuthenticated", "InvalidInput", "NoPermission"})
       => LET run == last'.run
              ni == IF run.files.present THEN run.files.image ELSE 0
          IN IF ImageCount(run) > IMAGE_LIMIT \/ VideoCount(run) > VIDEO_LIMIT
             THEN last'.out = "MediaContentExceedsLimit" /\ tuits' = tuits
             ELSE last'.out = "ok"
                  => /\ tuits'[last'.tid].image =
                            run.image \o Uploaded(nextUrl, nextUrl + ni)
                     /\ tuits'[last'.tid].video =
                            run.video \o Uploaded(nextUrl + ni, nextUrl')]_vars

\* C11: uploadMedia with more assets than the limit fails with
\* MediaContentExceedsLimit and stores nothing; with no assets it returns the
\* empty list and stores nothing; otherwise, the store taking every upload,
\* it stores one object per asset, uploaded in the order of the list, and
\* returns their URLs in that order; when the store throws at an upload the
\* objects before it are stored and the error is the result
C11_UploadContract ==
    [][last'.op = "uploadMedia"
       => LET r == last'.run
              new == cloud' \ cloud
          IN /\ cloud \subseteq cloud'
             /\ r.n > r.limit
                   => /\ last'.out = "MediaContentExceedsLimit"
                      /\ new = {} /\ nextUrl' = nextUrl
             /\ r.n = 0 => last'.out = "ok" /\ r.urls = <<>> /\ new = {}
             /\ (r.n <= r.limit /\ r.accepted = r.n)
                   => /\ last'.out = "ok"
                      /\ Len(r.urls) = r.n /\ Cardinality(new) = r.n
                      /\ \A i \in 1 .. r.n :
                             \E o \in new : o.url = r.urls[i] /\ o.asset = i
                      /\ \A i, j \in 1 .. r.n : i < j => r.urls[i] < r.urls[j]
             /\ (r.n <= r.limit /\ r.accepted < r.n)
                   => /\ last'.out = "StoreError"
                      /\ {o.asset : o \in new} = 1 .. r.accepted
                      /\ Cardinality(new) = r.accepted]_vars

\* a list of IMAGE_LIMIT assets was uploaded after an earlier upload, and
\* the URLs came back
C11_Witness ==
    /\ last.op = "uploadMedia" /\ last.out = "ok"
    /\ last.run.n = IMAGE_LIMIT
    /\ Len(last.run.urls) = IMAGE_LIMIT
    /\ Cardinality(cloud) > IMAGE_LIMIT

\* C12: a toggle whose tuit does not exist ends with NoSuchTuit at its
\* lookup, having inserted or deleted no LikeRecord and written no tuit; and
\* a LikeRecord is created only by a request whose lookup found the tuit
C12_NoSuchTuitWritesNothing ==
    [][/\ (last'.op = "toggle" /\ last'.out = "NoSuchTuit")
          => /\ last'.eff = {}
             /\ likes' = likes /\ tuits' = tuits
             /\ last'.tid \notin DOMAIN tuits
       /\ \A s \in Slots :
             (reqs[s].op = "toggle" /\ reqs[s].pc = "findTuit"
                /\ reqs[s].tid \notin DOMAIN tuits
                /\ (reqs'[s] = Idle \/ reqs'[s].pc # "findTuit"))
             => reqs'[s] = Idle /\ last'.out = "NoSuchTuit"
       /\ \A k \in LikeKeys :
             likes'[k] > likes[k]
             => \E s \in Slots :
                    /\ reqs[s].op = "toggle" /\ reqs[s].pc = "write"
                    /\ reqs[s].tid = k[1] /\ reqs[s].uid = k[2]
                    /\ reqs[s].tuit # NoDoc]_vars

\* a toggle on a tuit id that names no tuit was just refused, while another
\* tuit has a like
C12_Witness ==
    /\ last.op = "toggle" /\ last.out = "NoSuchTuit"
    /\ last.tid \notin DOMAIN tuits
    /\ \E k \in LikeKeys : likes[k] = 1

\* the state a toggle leaves its pair in: LIKED when it inserted the
\* LikeRecord, UNLIKED when it deleted it
LikeState(run) == IF run.liked THEN "UNLIKED" ELSE "LIKED"

\* the pair has a LikeRecord
Likes(uid, tid) == likes[<<tid, uid>>] > 0

C14_SoloToggleHeals ==
    (last.op = "toggle" /\ last.out = "ok" /\ last.run.solo
       /\ last.tid \in DOMAIN tuits)
        => tuits[last.tid].likes = RecordCount(last.tid)

\* interleaved toggles had left the stored count wrong; the next toggle of
\* the tuit ran alone and the count is right again
C14_Witness ==
    /\ last.op = "toggle" /\ last.out = "ok"
    /\ last.run.solo /\ last.run.drift
    /\ last.tid \in DOMAIN tuits
    /\ tuits[last.tid].likes = RecordCount(last.tid)

\* C15: while other requests arrive, a reconcile run still deletes only
\* objects it listed whose urls are outside the reference set it computed
\* (the snapshot form); that an object is unreferenced when it is deleted
\* does not hold, as the witness shows
C15_SnapshotOnly ==
    [][\A o \in cloud \ cloud' :
          \E s \in Slots :
              /\ reqs[s].op = "reconcile"
              /\ reqs[s].pc \in {"deleteImages", "deleteVideos"}
              /\ o \in reqs[s].images \cup reqs[s].videos
              /\ o.url \notin reqs[s].localMedia]_vars

\* a run has just made its one delete call and removed with it an object
\* whose url a stored tuit or user holds: the reference was written after
\* the run had read the documents
C15_Witness ==
    /\ last.op = "reconcile" /\ last.out = "ok"
    /\ Len(last.run.calls) = 1
    /\ \E o \in last.run.deleted :
          /\ o.url \in ReferenceSet
          /\ o.url \notin last.run.localMedia

\* a tuit write that ends with the store's error wrote no tuit, and the
\* objects uploaded before the error are stored, their urls in no document
FailedUploadIsOrphaned ==
    [][(last'.op \in {"createTuit", "updateTuit"} /\ last'.out = "StoreError")
       => /\ tuits' = tuits /\ users' = users
          /\ Cardinality(cloud' \ cloud) = last'.run.files.accepted
          /\ \A o \in cloud' \ cloud : o.lost /\ o.url \notin ReferenceSet']_vars

\* C16: after the uploads of a failed tuit write were left in the store, a
\* reconcile run that completes, with no other request in between, leaves
\* none of them there
C16_FailedUploadsReclaimed ==
    (last.op = "reconcile" /\ last.out = "ok")
        => \A o \in cloud : ~o.lost

\* a run has just deleted what a failed write had left in the store
C16_Witness ==
    /\ last.op = "reconcile" /\ last.out = "ok"
    /\ \E o \in last.run.deleted : o.lost
    /\ \A o \in cloud : ~o.lost

\* what a register request that had both fields did, given whether the
\* username was taken when its last step ran
RegisterOutcome(raced) ==
    (last'.op = "register" /\ last'.out # "InvalidInput")
       => LET r == last'.run
              uid == last'.uid
          IN IF UserDao_findUserByUsername(r.uname) # {}
             THEN /\ last'.out \in {"UserAlreadyExists"} \cup raced
                  /\ users' = users /\ session' = session
             ELSE /\ last'.out = "ok"
                  /\ uid \notin DOMAIN users
                  /\ DOMAIN users' = DOMAIN users \cup {uid}
                  /\ \A u \in DOMAIN users : users'[u] = users[u]
                  /\ users'[uid].username = r.uname
                  /\ users'[uid].password = Hash(r.pw)
                  /\ users'[uid].password # r.pw
                  /\ session'[last'.c]._id = uid
                  /\ session'[last'.c].username = r.uname

\* C17: register with a username that a principal already has fails with
\* UserAlreadyExists, creates nothing and leaves the session as it was;
\* otherwise it stores exactly one new principal, with the hashed password,
\* and binds the session to it
C17_RegisterContract == [][RegisterOutcome({})]_vars

\* the same, but for a register that finds the username free and loses it
\* to another register before its insert: that one ends with no response
RegisterUnlessRaced == [][RegisterOutcome({"crash"})]_vars

\* a register has just created carol's account and bound the session to it
C17_Witness ==
    /\ last.op = "register" /\ last.out = "ok"
    /\ last.uid \in DOMAIN users
    /\ session[last.c]._id = last.uid

\* the credentials of a login name a stored principal
Matches(uname, pw) ==
    \E u \in DOMAIN users :
        users[u].username = uname /\ Compare(pw, users[u].password)

\* C18: login without a username or a password fails with InvalidInput;
\* with credentials that match no stored principal (wrong password or
\* unknown username) it fails with NoSuchUser; a failing login leaves the
\* session as it was, and the session is set only when the comparison
\* succeeded
C18_LoginContract ==
    [][last'.op = "login"
       => LET r == last'.run
              missing == r.uname = "" \/ r.pw = 0
          IN /\ missing => last'.out = "InvalidInput"
             /\ (~missing /\ ~Matches(r.uname, r.pw)) => last'.out = "NoSuchUser"
             /\ last'.out # "ok" => session' = session
             /\ session' # session => (~missing /\ Matches(r.uname, r.pw))]_vars

\* the same for the usernames that are stored
LoginOfKnownUser ==
    [][(last'.op = "login"
          /\ (last'.run.uname = "" \/ UserDao_findUserByUsername(last'.run.uname) # {}))
       => LET r == last'.run
              missing == r.uname = "" \/ r.pw = 0
          IN /\ missing => last'.out = "InvalidInput"
             /\ (~missing /\ ~Matches(r.uname, r.pw)) => last'.out = "NoSuchUser"
             /\ last'.out # "ok" => session' = session
             /\ session' # session => (~missing /\ Matches(r.uname, r.pw))]_vars

\* a login with a wrong password was just refused while a principal is
\* logged in
C18_Witness ==
    /\ last.op = "login" /\ last.out = "NoSuchUser"
    /\ session[last.c] # NoProfile

\* the passwords and digests the users collection holds
StoredSecrets == {users[u].password : u \in DOMAIN users}

\* C19: the principal a session holds has its password redacted, it is
\* neither a stored digest nor the password sent, and so has the body of
\* every login and register response
C19_SessionRedacted ==
    /\ \A c \in Clients :
          session[c] # NoProfile
          => /\ session[c].password = REDACTED
             /\ session[c].password \notin StoredSecrets
    /\ (last.op \in {"login", "register"} /\ last.out = "ok")
          => /\ last.run.body.password = REDACTED
             /\ last.run.body.password \notin StoredSecrets \cup {last.run.pw}

\* a register has just answered with the new principal, whose digest the
\* users collection holds
C19_Witness ==
    /\ last.op = "register" /\ last.out = "ok"
    /\ users[last.uid].password = Hash(last.run.pw)
    /\ session[last.c] = last.run.body

\* the handlers whose path names a user
ResolvingOps == {"findAllTuitsByUser", "createTuit", "toggle"}

\* C20: a request that names the user "my" without a session principal ends
\* with the not-logged-in error having read, written and uploaded nothing; a
\* lookup of "my" with a session principal reads that principal's tuits, a
\* lookup of any other id reads the tuits of that id; a tuit is created for
\* the principal when "my" was named and for the id named otherwise
C20_SentinelResolution ==
    [][last'.op \in ResolvingOps
       => /\ (last'.uid = MY /\ last'.who = NoProfile)
             => /\ last'.out = "NotAuthenticated"
                /\ last'.eff = {}
                /\ users' = users /\ tuits' = tuits /\ likes' = likes
                /\ cloud' = cloud
          /\ (last'.op = "findAllTuitsByUser" /\ last'.out = "ok")
             => /\ last'.run.userId =
                      IF last'.uid = MY THEN last'.who._id ELSE last'.uid
                /\ last'.run.found = TuitDao_findAllTuitsByUser(last'.run.userId)
          /\ \A t \in DOMAIN tuits' \ DOMAIN tuits :
                tuits'[t].postedBy \in UserIds]_vars

\* nobody is logged in and a request for the tuits of "my" was refused
C20_Witness ==
    /\ last.op = "findAllTuitsByUser" /\ last.out = "NotAuthenticated"
    /\ last.uid = MY /\ last.who = NoProfile
    /\ last.eff = {}
    /\ tuits # EmptyFcn

\* the role the users collection gives a principal: ADMIN when its username
\* is in the admins collection
Role(doc) == IF isAdmin(doc.username) THEN "ADMIN" ELSE "REGULAR"

\* C21: the role of a stored principal goes from REGULAR to ADMIN only in a
\* step of a request made by an administrator
C21_RoleImmutable ==
    [][\A u \in DOMAIN users \cap DOMAIN users' :
          (Role(users[u]) = "REGULAR" /\ Role(users'[u]) = "ADMIN")
          => Role(last'.who) = "ADMIN"]_vars

\* the same while every administrator's username is that of a stored user
RoleKeptWhileNameHeld ==
    [][\A u \in DOMAIN users \cap DOMAIN users' :
          (Role(users[u]) = "REGULAR" /\ Role(users'[u]) = "ADMIN"
             /\ \A a \in admins : UserDao_findUserByUsername(a) # {})
          => Role(last'.who) = "ADMIN"]_vars

\* the principal alice (id 1) holds a session in which she is an administrator
C21_Escalated ==
    \E c \in Clients :
        session[c] # NoProfile /\ session[c]._id = 1 /\ isAdmin(session[c].username)

\* C22: a delete call of a reconcile run that fails ends the run with the
\* store's error and no success response: the call is not made again, the
\* other kind's delete is not made after it, it removed nothing, and what an
\* earlier call of the run deleted stays deleted
C22_DeleteErrorPropagates ==
    [][/\ \A s \in Slots :
             (/\ reqs[s].op = "reconcile"
              /\ reqs[s].pc \in {"deleteImages", "deleteVideos"}
              /\ reqs'[s] # reqs[s]
              /\ cloud' = cloud
              /\ \E o \in cloud :
                     o \in Trash(IF reqs[s].pc = "deleteImages"
                                 THEN reqs[s].images ELSE reqs[s].videos,
                                 reqs[s].localMedia))
             => /\ reqs'[s] = Idle
                /\ last'.op = "reconcile" /\ last'.out = "StoreError"
       /\ (last'.op = "reconcile" /\ last'.out = "StoreError")
          => LET r == last'.run
             IN /\ cloud' = cloud
                /\ r.deleted \cap cloud' = {}
                /\ Len(r.calls) \in {1, 2}
                /\ \A i, j \in DOMAIN r.calls : r.calls[i] = r.calls[j] => i = j
                /\ \E s \in Slots :
                      /\ reqs[s].op = "reconcile" /\ reqs'[s] = Idle
                      /\ reqs[s].pc = (IF r.calls[Len(r.calls)] = "image"
                                       THEN "deleteImages" ELSE "deleteVideos")
                      /\ Len(r.calls) = Len(reqs[s].calls) + 1]_vars

\* a run deleted its orphaned images, then its delete of the orphaned video
\* failed: the run ended with the error, the images are gone, the video is
\* still stored
C22_Witness ==
    /\ last.op = "reconcile" /\ last.out = "StoreError"
    /\ last.run.calls = <<"image", "video">>
    /\ last.run.deleted # {}
    /\ \E o \in cloud : o.kind = "video" /\ o.url \notin ReferenceSet

\* the request of slot s has ended with a response or an error to its caller
Answered(s) ==
    /\ reqs[s] = Idle
    /\ last.op \in {"toggle", "reconcile"}
    /\ last.out # "crash"

\* C23: every toggle and every reconcile run in flight is eventually
\* answered, with a response or an error
C23_EveryRequestAnswered ==
    \A s \in Slots : (reqs[s].op \in {"toggle", "reconcile"}) ~> Answered(s)

\* a request ends unanswered only where one of its calls threw outside the
\* try blocks: every other end of a toggle or reconcile run is a response or
\* an error passed to next
UnansweredOnlyWhenThrown ==
    [][\A s \in Slots :
          (reqs[s].op \in {"toggle", "reconcile"} /\ reqs'[s] = Idle)
          => \/ Answered(s)'
             \/ /\ last'.out = "crash"
                /\ reqs[s].pc \in {"findTuit", "findLiked", "count", "update",
                                   "scanTuits", "scanUsers", "listImages",
                                   "listVideos"}]_vars

\* C24: an accepted update whose body has neither an image nor a video
\* field and that uploads no file leaves the tuit's stored images and
\* videos as they were
C24_BareUpdateKeepsMedia ==
    [][(/\ last'.op = "updateTuit" /\ last'.out = "ok"
        /\ last'.tid \in DOMAIN tuits
        /\ last'.run.image = <<>> /\ last'.run.video = <<>>
        /\ Uploads(last'.run.files) = 0)
       => /\ tuits'[last'.tid].image = tuits[last'.tid].image
          /\ tuits'[last'.tid].video = tuits[last'.tid].video]_vars

\* a tuit that had an image has lost it to an update that brought no media
C24_MediaDropped ==
    /\ last.op = "updateTuit" /\ last.out = "ok"
    /\ last.run.image = <<>> /\ last.run.video = <<>>
    /\ Uploads(last.run.files) = 0
    /\ cloud # {}
    /\ \A o \in cloud : o.url \notin ReferenceSet

\* C25: a tuit created by the request of a logged-in principal who is no
\* administrator has that principal as its author, and a LikeRecord inserted
\* or deleted by such a request has that principal as its user
C25_OnlyAsSelf ==
    [][/\ \A t \in DOMAIN tuits' \ DOMAIN tuits :
             Regular(last'.who) => tuits'[t].postedBy = last'.who._id
       /\ \A k \in LikeKeys :
             likes'[k] # likes[k]
             => \E s \in Slots :
                    /\ reqs[s].op = "toggle" /\ reqs[s].pc = "write"
                    /\ reqs[s].tid = k[1] /\ reqs[s].uid = k[2]
                    /\ Regular(reqs[s].who) => k[2] = reqs[s].who._id]_vars

\* alice's session has made bob like a tuit
C25_LikedAsAnother ==
    /\ last.op = "toggle" /\ last.out = "ok"
    /\ last.who # NoProfile /\ last.who._id = 1
    /\ Likes(2, last.tid)

\* what a tuit document holds beside its like count
Content(doc) ==
    [postedBy |-> doc.postedBy, tuit |-> doc.tuit, image |-> doc.image,
     video |-> doc.video]

\* C26: the write-back of a toggle changes nothing of its tuit but the like
\* count: body, author and attachments stay as they are stored
C26_ToggleWritesCountOnly ==
    [][\A s \in Slots :
          (reqs[s].op = "toggle" /\ reqs[s].pc = "update" /\ reqs'[s] = Idle)
          => \A t \in DOMAIN tuits :
                 t \in DOMAIN tuits' /\ Content(tuits'[t]) = Content(tuits[t])]_vars

\* C27: a toggle has one outcome: once it has passed an error to the error
\* handler it takes no further step, and the toggle that sends the success
\* response has passed no error
C27_OneOutcome ==
    /\ \A s \in Slots : reqs[s].op = "toggle" => ~reqs[s].nexted
    /\ (last.op = "toggle" /\ last.out = "ok") => ~last.nexted

\* the same for the toggles whose insert or delete succeeded
OneOutcomeUnlessWriteFailed ==
    /\ \A s \in Slots :
          (reqs[s].op = "toggle" /\ "write" \in reqs[s].eff) => ~reqs[s].nexted
    /\ (last.op = "toggle" /\ last.out \in {"ok", "crash"} /\ last.nexted)
          => "write" \notin last.run.eff

\* a toggle whose insert failed has counted the likes, written the tuit and
\* answered 200
C27_ErrorThenSuccess ==
    /\ last.op = "toggle" /\ last.out = "ok" /\ last.nexted
    /\ ~last.run.liked
    /\ "write" \in last.eff

\* C28: every LikeRecord names a tuit that is stored
C28_LikesNameStoredTuits ==
    \A k \in LikeKeys : likes[k] > 0 => k[1] \in DOMAIN tuits

\* a toggle found its tuit, the tuit was deleted, and the toggle then
\* inserted its LikeRecord
C28_LikedAfterDelete ==
    \E s \in Slots :
        /\ reqs[s].op = "toggle" /\ reqs[s].pc = "count"
        /\ "write" \in reqs[s].eff /\ ~reqs[s].liked
        /\ reqs[s].tid \notin DOMAIN tuits
        /\ reqs[s].solo

\* C29: no two stored users have the same username
C29_UniqueUsernames ==
    \A u, v \in DOMAIN users : users[u].username = users[v].username => u = v

\* a register and a rename, each of which had found the name free, have
\* both stored it
C29_RacedIntoDuplicate ==
    /\ last.op = "updateUser" /\ last.out = "ok"
    /\ last.run.uname = "carol"
    /\ Cardinality(UserDao_findUserByUsername("carol")) = 2

\* the principal of a session whose user document has been deleted
Deleted(p) == p # NoProfile /\ p._id \notin DOMAIN users

\* C30: a request made through the session of a deleted principal writes no
\* tuit, no LikeRecord and no user document
C30_DeletedCannotMutate ==
    [][/\ (Deleted(last'.who)
             /\ last'.op \in {"createTuit", "updateTuit", "toggle", "updateUser"})
          => tuits' = tuits /\ likes' = likes /\ users' = users
       /\ \A s \in Slots :
             (reqs[s].op = "toggle" /\ Deleted(reqs[s].who))
             => tuits' = tuits /\ likes' = likes /\ users' = users]_vars

\* the same for the requests that create a tuit or update the user record
DeletedCannotCreate ==
    [][(Deleted(last'.who) /\ last'.op \in {"createTuit", "updateUser"})
       => /\ tuits' = tuits /\ likes' = likes /\ users' = users
          /\ last'.op = "createTuit" => last'.out = "NoSuchUser"]_vars

\* bob, deleted by the administrator, has liked a tuit through the session
\* he had opened before
C30_LikedWhenDeleted ==
    /\ last.op = "toggle" /\ last.out = "ok"
    /\ Deleted(last.who)
    /\ Likes(last.who._id, last.tid)

=============================================================================
